---- MODULE Spec2Model ----
(***************************************************************************)
(* Verification model of conststr: the fixed-capacity constant string      *)
(* (include/conststr.hpp), the string searches that reflect.hpp includes   *)
(* from the header beside it (conststr.hpp), and the compile-time          *)
(* reflection of aggregates (reflect.hpp).                                 *)
(*                                                                         *)
(* Three state machines share the module:                                  *)
(*   Spec         a chain of cstr operations on one string value           *)
(*   SpecReflect  number_of_members, to_tuple and access through a tuple   *)
(*   SpecName     name_of_ptr_impl and basename_of on a signature text     *)
(***************************************************************************)
EXTENDS Integers, Sequences, FiniteSets, TLC

VARIABLES
    \* Spec: the string chain
    str,        \* storage _str of the current cstr value: N + 1 slots
    recv,       \* storage of the receiver the last operation was called on
    self,       \* storage of that receiver after the operation returned
    opn,        \* name of the last operation
    arg,        \* arguments of the last operation
    ret,        \* value returned by the last query (find, contains, ==, <=>, ...)
    \* SpecReflect
    fields,     \* the aggregate type T: one kind per field, in declaration order
    Args,       \* the template pack Args of number_of_members_impl
    pc,         \* position of the reflection query
    count,      \* number_of_members<T>
    cat,        \* value category of the object handed to to_tuple
    tup,        \* result of to_tuple: per element the field it refers to
    refcat,     \* category of the references in the result of to_tuple
    obj,        \* the object's field values
    before,     \* the object's field values before the last assignment
    asg,        \* the last assignment through a tuple element
    \* SpecName
    Name,       \* the text handed to name extraction
    pcn,        \* position of the name query
    res         \* result of the name query

strVars == <<str, recv, self, opn, arg, ret>>
refVars == <<fields, Args, pc, count, cat, tup, refcat, obj, before, asg>>
nameVars == <<Name, pcn, res>>
vars == <<str, recv, self, opn, arg, ret, fields, Args, pc, count, cat, tup, refcat, obj, before, asg,
          Name, pcn, res>>

----------------------------------------------------------------------------
\* Bounds of the model

\* longest string the chain may build
MaxLen == 3
\* longest aggregate with mixed field kinds
MaxMixed == 3
\* longest aggregate with fields of one kind
MaxFields == 130
\* longest text handed to name extraction
MaxName == 5
\* width of std::size_t in the model, in bits
SizeBits == 12

SizeMod == 2 ^ SizeBits

\* std::size_t arithmetic
size_t(x) == x % SizeMod

Min(a, b) == IF a <= b THEN a ELSE b
Max(a, b) == IF a >= b THEN a ELSE b

\* a result the compiler rejects (constraint failure or ill-formed program)
Rejected == [status |-> "rejected", val |-> <<>>]

\* a result the compiler accepts
Accepted(v) == [status |-> "ok", val |-> v]

----------------------------------------------------------------------------
\* reflect.hpp: field-count deduction

\* kinds of field, by the placeholders a field accepts in  T{{...}, {placeholder}}
FieldKinds == {"int", "pointer", "string", "opaque"}

\* {any_type{}} initializes the field
accepts_any_type(kind) == kind \in {"int", "pointer"}

\* {std::nullptr_t{}} initializes the field
accepts_nullptr_t(kind) == kind \in {"pointer", "string"}

accepts(kind, placeholder) ==
    IF placeholder = "any_type" THEN accepts_any_type(kind) ELSE accepts_nullptr_t(kind)

\* requires { T_{{Args{}}..., {P{}}}; } : an aggregate takes at most one initializer
\* clause per field and every clause must initialize its field
brace_init_ok(T, list) ==
    /\ Len(list) <= Len(T)
    /\ \A j \in 1..Len(list) : accepts(T[j], list[j])

\* first branch of number_of_members_impl
probe_any_ok(T, A) == brace_init_ok(T, Append(A, "any_type"))

\* second branch of number_of_members_impl, without the fallback placeholder
probe_nullptr_never(T, A) == FALSE

\* second branch of number_of_members_impl
probe_nullptr_ok(T, A) == brace_init_ok(T, Append(A, "nullptr_t"))

\* last branch of number_of_members_impl: return sizeof...(Args)

members_result(A) == Len(A)

----------------------------------------------------------------------------
\* reflect.hpp: field decomposition

\* reflect.hpp to_tuple: for the case N == n (entry n + 1), the names of the structured
\* binding  auto &&[...] = t  in source order; name p is written 0 and name pK is written K.
to_tuple_bindings ==
  <<
    <<>>,
    <<0>>,
    <<0, 1>>,
    <<0, 1, 2>>,
    <<0, 1, 2, 3>>,
    <<0, 1, 2, 3, 4>>,
    <<0, 1, 2, 3, 4, 5>>,
    <<0, 1, 2, 3, 4, 5, 6>>,
    <<0, 1, 2, 3, 4, 5, 6, 7>>,
    <<0, 1, 2, 3, 4, 5, 6, 7, 8>>,
    <<0, 1, 2, 3, 4, 5, 6, 7, 8, 9>>,
    <<0, 1, 2, 3, 4, 5, 6, 7, 8, 9, 10>>,
    <<0, 1, 2, 3, 4, 5, 6, 7, 8, 9, 10, 11>>,
    <<0, 1, 2, 3, 4, 5, 6, 7, 8, 9, 10, 11, 12>>,
    <<0, 1, 2, 3, 4, 5, 6, 7, 8, 9, 10, 11, 12, 13>>,
    <<0, 1, 2, 3, 4, 5, 6, 7, 8, 9, 10, 11, 12, 13, 14>>,
    <<0, 1, 2, 3, 4, 5, 6, 7, 8, 9, 10, 11, 12, 13, 14, 15>>,
    <<0, 1, 2, 3, 4, 5, 6, 7, 8, 9, 10, 11, 12, 13, 14, 15, 16>>,
    <<0, 1, 2, 3, 4, 5, 6, 7, 8, 9, 10, 11, 12, 13, 14, 15, 16, 17>>,
    <<0, 1, 2, 3, 4, 5, 6, 7, 8, 9, 10, 11, 12, 13, 14, 15, 16, 17, 18>>,
    <<0, 1, 2, 3, 4, 5, 6, 7, 8, 9, 10, 11, 12, 13, 14, 15, 16, 17, 18, 19>>,
    <<0, 1, 2, 3, 4, 5, 6, 7, 8, 9, 10, 11, 12, 13, 14, 15, 16, 17, 18, 19, 20>>,
    <<0, 1, 2, 3, 4, 5, 6, 7, 8, 9, 10, 11, 12, 13, 14, 15, 16, 17, 18, 19, 20, 21>>,
    <<0, 1, 2, 3, 4, 5, 6, 7, 8, 9, 10, 11, 12, 13, 14, 15, 16, 17, 18, 19, 20, 21, 22>>,
    <<0, 1, 2, 3, 4, 5, 6, 7, 8, 9, 10, 11, 12, 13, 14, 15, 16, 17, 18, 19, 20, 21, 22, 23>>,
    <<0, 1, 2, 3, 4, 5, 6, 7, 8, 9, 10, 11, 12, 13, 14, 15, 16, 17, 18, 19, 20, 21, 22, 23, 24>>,
    <<0, 1, 2, 3, 4, 5, 6, 7, 8, 9, 10, 11, 12, 13, 14, 15, 16, 17, 18, 19, 20, 21, 22, 23, 24,
    25>>,
    <<0, 1, 2, 3, 4, 5, 6, 7, 8, 9, 10, 11, 12, 13, 14, 15, 16, 17, 18, 19, 20, 21, 22, 23, 24, 25,
    26>>,
    <<0, 1, 2, 3, 4, 5, 6, 7, 8, 9, 10, 11, 12, 13, 14, 15, 16, 17, 18, 19, 20, 21, 22, 23, 24, 25,
    26, 27>>,
    <<0, 1, 2, 3, 4, 5, 6, 7, 8, 9, 10, 11, 12, 13, 14, 15, 16, 17, 18, 19, 20, 21, 22, 23, 24, 25,
    26, 27, 28>>,
    <<0, 1, 2, 3, 4, 5, 6, 7, 8, 9, 10, 11, 12, 13, 14, 15, 16, 17, 18, 19, 20, 21, 22, 23, 24, 25,
    26, 27, 28, 29>>,
    <<0, 1, 2, 3, 4, 5, 6, 7, 8, 9, 10, 11, 12, 13, 14, 15, 16, 17, 18, 19, 20, 21, 22, 23, 24, 25,
    26, 27, 28, 29, 30>>,
    <<0, 1, 2, 3, 4, 5, 6, 7, 8, 9, 10, 11, 12, 13, 14, 15, 16, 17, 18, 19, 20, 21, 22, 23, 24, 25,
    26, 27, 28, 29, 30, 31>>,
    <<0, 1, 2, 3, 4, 5, 6, 7, 8, 9, 10, 11, 12, 13, 14, 15, 16, 17, 18, 19, 20, 21, 22, 23, 24, 25,
    26, 27, 28, 29, 30, 31, 32>>,
    <<0, 1, 2, 3, 4, 5, 6, 7, 8, 9, 10, 11, 12, 13, 14, 15, 16, 17, 18, 19, 20, 21, 22, 23, 24, 25,
    26, 27, 28, 29, 30, 31, 32, 33>>,
    <<0, 1, 2, 3, 4, 5, 6, 7, 8, 9, 10, 11, 12, 13, 14, 15, 16, 17, 18, 19, 20, 21, 22, 23, 24, 25,
    26, 27, 28, 29, 30, 31, 32, 33, 34>>,
    <<0, 1, 2, 3, 4, 5, 6, 7, 8, 9, 10, 11, 12, 13, 14, 15, 16, 17, 18, 19, 20, 21, 22, 23, 24, 25,
    26, 27, 28, 29, 30, 31, 32, 33, 34, 35>>,
    <<0, 1, 2, 3, 4, 5, 6, 7, 8, 9, 10, 11, 12, 13, 14, 15, 16, 17, 18, 19, 20, 21, 22, 23, 24, 25,
    26, 27, 28, 29, 30, 31, 32, 33, 34, 35, 36>>,
    <<0, 1, 2, 3, 4, 5, 6, 7, 8, 9, 10, 11, 12, 13, 14, 15, 16, 17, 18, 19, 20, 21, 22, 23, 24, 25,
    26, 27, 28, 29, 30, 31, 32, 33, 34, 35, 36, 37>>,
    <<0, 1, 2, 3, 4, 5, 6, 7, 8, 9, 10, 11, 12, 13, 14, 15, 16, 17, 18, 19, 20, 21, 22, 23, 24, 25,
    26, 27, 28, 29, 30, 31, 32, 33, 34, 35, 36, 37, 38>>,
    <<0, 1, 2, 3, 4, 5, 6, 7, 8, 9, 10, 11, 12, 13, 14, 15, 16, 17, 18, 19, 20, 21, 22, 23, 24, 25,
    26, 27, 28, 29, 30, 31, 32, 33, 34, 35, 36, 37, 38, 39>>,
    <<0, 1, 2, 3, 4, 5, 6, 7, 8, 9, 10, 11, 12, 13, 14, 15, 16, 17, 18, 19, 20, 21, 22, 23, 24, 25,
    26, 27, 28, 29, 30, 31, 32, 33, 34, 35, 36, 37, 38, 39, 40>>,
    <<0, 1, 2, 3, 4, 5, 6, 7, 8, 9, 10, 11, 12, 13, 14, 15, 16, 17, 18, 19, 20, 21, 22, 23, 24, 25,
    26, 27, 28, 29, 30, 31, 32, 33, 34, 35, 36, 37, 38, 39, 40, 41>>,
    <<0, 1, 2, 3, 4, 5, 6, 7, 8, 9, 10, 11, 12, 13, 14, 15, 16, 17, 18, 19, 20, 21, 22, 23, 24, 25,
    26, 27, 28, 29, 30, 31, 32, 33, 34, 35, 36, 37, 38, 39, 40, 41, 42>>,
    <<0, 1, 2, 3, 4, 5, 6, 7, 8, 9, 10, 11, 12, 13, 14, 15, 16, 17, 18, 19, 20, 21, 22, 23, 24, 25,
    26, 27, 28, 29, 30, 31, 32, 33, 34, 35, 36, 37, 38, 39, 40, 41, 42, 43>>,
    <<0, 1, 2, 3, 4, 5, 6, 7, 8, 9, 10, 11, 12, 13, 14, 15, 16, 17, 18, 19, 20, 21, 22, 23, 24, 25,
    26, 27, 28, 29, 30, 31, 32, 33, 34, 35, 36, 37, 38, 39, 40, 41, 42, 43, 44>>,
    <<0, 1, 2, 3, 4, 5, 6, 7, 8, 9, 10, 11, 12, 13, 14, 15, 16, 17, 18, 19, 20, 21, 22, 23, 24, 25,
    26, 27, 28, 29, 30, 31, 32, 33, 34, 35, 36, 37, 38, 39, 40, 41, 42, 43, 44, 45>>,
    <<0, 1, 2, 3, 4, 5, 6, 7, 8, 9, 10, 11, 12, 13, 14, 15, 16, 17, 18, 19, 20, 21, 22, 23, 24, 25,
    26, 27, 28, 29, 30, 31, 32, 33, 34, 35, 36, 37, 38, 39, 40, 41, 42, 43, 44, 45, 46>>,
    <<0, 1, 2, 3, 4, 5, 6, 7, 8, 9, 10, 11, 12, 13, 14, 15, 16, 17, 18, 19, 20, 21, 22, 23, 24, 25,
    26, 27, 28, 29, 30, 31, 32, 33, 34, 35, 36, 37, 38, 39, 40, 41, 42, 43, 44, 45, 46, 47>>,
    <<0, 1, 2, 3, 4, 5, 6, 7, 8, 9, 10, 11, 12, 13, 14, 15, 16, 17, 18, 19, 20, 21, 22, 23, 24, 25,
    26, 27, 28, 29, 30, 31, 32, 33, 34, 35, 36, 37, 38, 39, 40, 41, 42, 43, 44, 45, 46, 47, 48>>,
    <<0, 1, 2, 3, 4, 5, 6, 7, 8, 9, 10, 11, 12, 13, 14, 15, 16, 17, 18, 19, 20, 21, 22, 23, 24, 25,
    26, 27, 28, 29, 30, 31, 32, 33, 34, 35, 36, 37, 38, 39, 40, 41, 42, 43, 44, 45, 46, 47, 48,
    49>>,
    <<0, 1, 2, 3, 4, 5, 6, 7, 8, 9, 10, 11, 12, 13, 14, 15, 16, 17, 18, 19, 20, 21, 22, 23, 24, 25,
    26, 27, 28, 29, 30, 31, 32, 33, 34, 35, 36, 37, 38, 39, 40, 41, 42, 43, 44, 45, 46, 47, 48, 49,
    50>>,
    <<0, 1, 2, 3, 4, 5, 6, 7, 8, 9, 10, 11, 12, 13, 14, 15, 16, 17, 18, 19, 20, 21, 22, 23, 24, 25,
    26, 27, 28, 29, 30, 31, 32, 33, 34, 35, 36, 37, 38, 39, 40, 41, 42, 43, 44, 45, 46, 47, 48, 49,
    50, 51>>,
    <<0, 1, 2, 3, 4, 5, 6, 7, 8, 9, 10, 11, 12, 13, 14, 15, 16, 17, 18, 19, 20, 21, 22, 23, 24, 25,
    26, 27, 28, 29, 30, 31, 32, 33, 34, 35, 36, 37, 38, 39, 40, 41, 42, 43, 44, 45, 46, 47, 48, 49,
    50, 51, 52>>,
    <<0, 1, 2, 3, 4, 5, 6, 7, 8, 9, 10, 11, 12, 13, 14, 15, 16, 17, 18, 19, 20, 21, 22, 23, 24, 25,
    26, 27, 28, 29, 30, 31, 32, 33, 34, 35, 36, 37, 38, 39, 40, 41, 42, 43, 44, 45, 46, 47, 48, 49,
    50, 51, 52, 53>>,
    <<0, 1, 2, 3, 4, 5, 6, 7, 8, 9, 10, 11, 12, 13, 14, 15, 16, 17, 18, 19, 20, 21, 22, 23, 24, 25,
    26, 27, 28, 29, 30, 31, 32, 33, 34, 35, 36, 37, 38, 39, 40, 41, 42, 43, 44, 45, 46, 47, 48, 49,
    50, 51, 52, 53, 54>>,
    <<0, 1, 2, 3, 4, 5, 6, 7, 8, 9, 10, 11, 12, 13, 14, 15, 16, 17, 18, 19, 20, 21, 22, 23, 24, 25,
    26, 27, 28, 29, 30, 31, 32, 33, 34, 35, 36, 37, 38, 39, 40, 41, 42, 43, 44, 45, 46, 47, 48, 49,
    50, 51, 52, 53, 54, 55>>,
    <<0, 1, 2, 3, 4, 5, 6, 7, 8, 9, 10, 11, 12, 13, 14, 15, 16, 17, 18, 19, 20, 21, 22, 23, 24, 25,
    26, 27, 28, 29, 30, 31, 32, 33, 34, 35, 36, 37, 38, 39, 40, 41, 42, 43, 44, 45, 46, 47, 48, 49,
    50, 51, 52, 53, 54, 55, 56>>,
    <<0, 1, 2, 3, 4, 5, 6, 7, 8, 9, 10, 11, 12, 13, 14, 15, 16, 17, 18, 19, 20, 21, 22, 23, 24, 25,
    26, 27, 28, 29, 30, 31, 32, 33, 34, 35, 36, 37, 38, 39, 40, 41, 42, 43, 44, 45, 46, 47, 48, 49,
    50, 51, 52, 53, 54, 55, 56, 57>>,
    <<0, 1, 2, 3, 4, 5, 6, 7, 8, 9, 10, 11, 12, 13, 14, 15, 16, 17, 18, 19, 20, 21, 22, 23, 24, 25,
    26, 27, 28, 29, 30, 31, 32, 33, 34, 35, 36, 37, 38, 39, 40, 41, 42, 43, 44, 45, 46, 47, 48, 49,
    50, 51, 52, 53, 54, 55, 56, 57, 58>>,
    <<0, 1, 2, 3, 4, 5, 6, 7, 8, 9, 10, 11, 12, 13, 14, 15, 16, 17, 18, 19, 20, 21, 22, 23, 24, 25,
    26, 27, 28, 29, 30, 31, 32, 33, 34, 35, 36, 37, 38, 39, 40, 41, 42, 43, 44, 45, 46, 47, 48, 49,
    50, 51, 52, 53, 54, 55, 56, 57, 58, 59>>,
    <<0, 1, 2, 3, 4, 5, 6, 7, 8, 9, 10, 11, 12, 13, 14, 15, 16, 17, 18, 19, 20, 21, 22, 23, 24, 25,
    26, 27, 28, 29, 30, 31, 32, 33, 34, 35, 36, 37, 38, 39, 40, 41, 42, 43, 44, 45, 46, 47, 48, 49,
    50, 51, 52, 53, 54, 55, 56, 57, 58, 59, 60>>,
    <<0, 1, 2, 3, 4, 5, 6, 7, 8, 9, 10, 11, 12, 13, 14, 15, 16, 17, 18, 19, 20, 21, 22, 23, 24, 25,
    26, 27, 28, 29, 30, 31, 32, 33, 34, 35, 36, 37, 38, 39, 40, 41, 42, 43, 44, 45, 46, 47, 48, 49,
    50, 51, 52, 53, 54, 55, 56, 57, 58, 59, 60, 61>>,
    <<0, 1, 2, 3, 4, 5, 6, 7, 8, 9, 10, 11, 12, 13, 14, 15, 16, 17, 18, 19, 20, 21, 22, 23, 24, 25,
    26, 27, 28, 29, 30, 31, 32, 33, 34, 35, 36, 37, 38, 39, 40, 41, 42, 43, 44, 45, 46, 47, 48, 49,
    50, 51, 52, 53, 54, 55, 56, 57, 58, 59, 60, 61, 62>>,
    <<0, 1, 2, 3, 4, 5, 6, 7, 8, 9, 10, 11, 12, 13, 14, 15, 16, 17, 18, 19, 20, 21, 22, 23, 24, 25,
    26, 27, 28, 29, 30, 31, 32, 33, 34, 35, 36, 37, 38, 39, 40, 41, 42, 43, 44, 45, 46, 47, 48, 49,
    50, 51, 52, 53, 54, 55, 56, 57, 58, 59, 60, 61, 62, 63>>,
    <<0, 1, 2, 3, 4, 5, 6, 7, 8, 9, 10, 11, 12, 13, 14, 15, 16, 17, 18, 19, 20, 21, 22, 23, 24, 25,
    26, 27, 28, 29, 30, 31, 32, 33, 34, 35, 36, 37, 38, 39, 40, 41, 42, 43, 44, 45, 46, 47, 48, 49,
    50, 51, 52, 53, 54, 55, 56, 57, 58, 59, 60, 61, 62, 63, 64>>,
    <<0, 1, 2, 3, 4, 5, 6, 7, 8, 9, 10, 11, 12, 13, 14, 15, 16, 17, 18, 19, 20, 21, 22, 23, 24, 25,
    26, 27, 28, 29, 30, 31, 32, 33, 34, 35, 36, 37, 38, 39, 40, 41, 42, 43, 44, 45, 46, 47, 48, 49,
    50, 51, 52, 53, 54, 55, 56, 57, 58, 59, 60, 61, 62, 63, 64, 65>>,
    <<0, 1, 2, 3, 4, 5, 6, 7, 8, 9, 10, 11, 12, 13, 14, 15, 16, 17, 18, 19, 20, 21, 22, 23, 24, 25,
    26, 27, 28, 29, 30, 31, 32, 33, 34, 35, 36, 37, 38, 39, 40, 41, 42, 43, 44, 45, 46, 47, 48, 49,
    50, 51, 52, 53, 54, 55, 56, 57, 58, 59, 60, 61, 62, 63, 64, 65, 66>>,
    <<0, 1, 2, 3, 4, 5, 6, 7, 8, 9, 10, 11, 12, 13, 14, 15, 16, 17, 18, 19, 20, 21, 22, 23, 24, 25,
    26, 27, 28, 29, 30, 31, 32, 33, 34, 35, 36, 37, 38, 39, 40, 41, 42, 43, 44, 45, 46, 47, 48, 49,
    50, 51, 52, 53, 54, 55, 56, 57, 58, 59, 60, 61, 62, 63, 64, 65, 66, 67>>,
    <<0, 1, 2, 3, 4, 5, 6, 7, 8, 9, 10, 11, 12, 13, 14, 15, 16, 17, 18, 19, 20, 21, 22, 23, 24, 25,
    26, 27, 28, 29, 30, 31, 32, 33, 34, 35, 36, 37, 38, 39, 40, 41, 42, 43, 44, 45, 46, 47, 48, 49,
    50, 51, 52, 53, 54, 55, 56, 57, 58, 59, 60, 61, 62, 63, 64, 65, 66, 67, 68>>,
    <<0, 1, 2, 3, 4, 5, 6, 7, 8, 9, 10, 11, 12, 13, 14, 15, 16, 17, 18, 19, 20, 21, 22, 23, 24, 25,
    26, 27, 28, 29, 30, 31, 32, 33, 34, 35, 36, 37, 38, 39, 40, 41, 42, 43, 44, 45, 46, 47, 48, 49,
    50, 51, 52, 53, 54, 55, 56, 57, 58, 59, 60, 61, 62, 63, 64, 65, 66, 67, 68, 69>>,
    <<0, 1, 2, 3, 4, 5, 6, 7, 8, 9, 10, 11, 12, 13, 14, 15, 16, 17, 18, 19, 20, 21, 22, 23, 24, 25,
    26, 27, 28, 29, 30, 31, 32, 33, 34, 35, 36, 37, 38, 39, 40, 41, 42, 43, 44, 45, 46, 47, 48, 49,
    50, 51, 52, 53, 54, 55, 56, 57, 58, 59, 60, 61, 62, 63, 64, 65, 66, 67, 68, 69, 70>>,
    <<0, 1, 2, 3, 4, 5, 6, 7, 8, 9, 10, 11, 12, 13, 14, 15, 16, 17, 18, 19, 20, 21, 22, 23, 24, 25,
    26, 27, 28, 29, 30, 31, 32, 33, 34, 35, 36, 37, 38, 39, 40, 41, 42, 43, 44, 45, 46, 47, 48, 49,
    50, 51, 52, 53, 54, 55, 56, 57, 58, 59, 60, 61, 62, 63, 64, 65, 66, 67, 68, 69, 70, 71>>,
    <<0, 1, 2, 3, 4, 5, 6, 7, 8, 9, 10, 11, 12, 13, 14, 15, 16, 17, 18, 19, 20, 21, 22, 23, 24, 25,
    26, 27, 28, 29, 30, 31, 32, 33, 34, 35, 36, 37, 38, 39, 40, 41, 42, 43, 44, 45, 46, 47, 48, 49,
    50, 51, 52, 53, 54, 55, 56, 57, 58, 59, 60, 61, 62, 63, 64, 65, 66, 67, 68, 69, 70, 71, 72>>,
    <<0, 1, 2, 3, 4, 5, 6, 7, 8, 9, 10, 11, 12, 13, 14, 15, 16, 17, 18, 19, 20, 21, 22, 23, 24, 25,
    26, 27, 28, 29, 30, 31, 32, 33, 34, 35, 36, 37, 38, 39, 40, 41, 42, 43, 44, 45, 46, 47, 48, 49,
    50, 51, 52, 53, 54, 55, 56, 57, 58, 59, 60, 61, 62, 63, 64, 65, 66, 67, 68, 69, 70, 71, 72,
    73>>,
    <<0, 1, 2, 3, 4, 5, 6, 7, 8, 9, 10, 11, 12, 13, 14, 15, 16, 17, 18, 19, 20, 21, 22, 23, 24, 25,
    26, 27, 28, 29, 30, 31, 32, 33, 34, 35, 36, 37, 38, 39, 40, 41, 42, 43, 44, 45, 46, 47, 48, 49,
    50, 51, 52, 53, 54, 55, 56, 57, 58, 59, 60, 61, 62, 63, 64, 65, 66, 67, 68, 69, 70, 71, 72, 73,
    74>>,
    <<0, 1, 2, 3, 4, 5, 6, 7, 8, 9, 10, 11, 12, 13, 14, 15, 16, 17, 18, 19, 20, 21, 22, 23, 24, 25,
    26, 27, 28, 29, 30, 31, 32, 33, 34, 35, 36, 37, 38, 39, 40, 41, 42, 43, 44, 45, 46, 47, 48, 49,
    50, 51, 52, 53, 54, 55, 56, 57, 58, 59, 60, 61, 62, 63, 64, 65, 66, 67, 68, 69, 70, 71, 72, 73,
    74, 75>>,
    <<0, 1, 2, 3, 4, 5, 6, 7, 8, 9, 10, 11, 12, 13, 14, 15, 16, 17, 18, 19, 20, 21, 22, 23, 24, 25,
    26, 27, 28, 29, 30, 31, 32, 33, 34, 35, 36, 37, 38, 39, 40, 41, 42, 43, 44, 45, 46, 47, 48, 49,
    50, 51, 52, 53, 54, 55, 56, 57, 58, 59, 60, 61, 62, 63, 64, 65, 66, 67, 68, 69, 70, 71, 72, 73,
    74, 75, 76>>,
    <<0, 1, 2, 3, 4, 5, 6, 7, 8, 9, 10, 11, 12, 13, 14, 15, 16, 17, 18, 19, 20, 21, 22, 23, 24, 25,
    26, 27, 28, 29, 30, 31, 32, 33, 34, 35, 36, 37, 38, 39, 40, 41, 42, 43, 44, 45, 46, 47, 48, 49,
    50, 51, 52, 53, 54, 55, 56, 57, 58, 59, 60, 61, 62, 63, 64, 65, 66, 67, 68, 69, 70, 71, 72, 73,
    74, 75, 76, 77>>,
    <<0, 1, 2, 3, 4, 5, 6, 7, 8, 9, 10, 11, 12, 13, 14, 15, 16, 17, 18, 19, 20, 21, 22, 23, 24, 25,
    26, 27, 28, 29, 30, 31, 32, 33, 34, 35, 36, 37, 38, 39, 40, 41, 42, 43, 44, 45, 46, 47, 48, 49,
    50, 51, 52, 53, 54, 55, 56, 57, 58, 59, 60, 61, 62, 63, 64, 65, 66, 67, 68, 69, 70, 71, 72, 73,
    74, 75, 76, 77, 78>>,
    <<0, 1, 2, 3, 4, 5, 6, 7, 8, 9, 10, 11, 12, 13, 14, 15, 16, 17, 18, 19, 20, 21, 22, 23, 24, 25,
    26, 27, 28, 29, 30, 31, 32, 33, 34, 35, 36, 37, 38, 39, 40, 41, 42, 43, 44, 45, 46, 47, 48, 49,
    50, 51, 52, 53, 54, 55, 56, 57, 58, 59, 60, 61, 62, 63, 64, 65, 66, 67, 68, 69, 70, 71, 72, 73,
    74, 75, 76, 77, 78, 79>>,
    <<0, 1, 2, 3, 4, 5, 6, 7, 8, 9, 10, 11, 12, 13, 14, 15, 16, 17, 18, 19, 20, 21, 22, 23, 24, 25,
    26, 27, 28, 29, 30, 31, 32, 33, 34, 35, 36, 37, 38, 39, 40, 41, 42, 43, 44, 45, 46, 47, 48, 49,
    50, 51, 52, 53, 54, 55, 56, 57, 58, 59, 60, 61, 62, 63, 64, 65, 66, 67, 68, 69, 70, 71, 72, 73,
    74, 75, 76, 77, 78, 79, 80>>,
    <<0, 1, 2, 3, 4, 5, 6, 7, 8, 9, 10, 11, 12, 13, 14, 15, 16, 17, 18, 19, 20, 21, 22, 23, 24, 25,
    26, 27, 28, 29, 30, 31, 32, 33, 34, 35, 36, 37, 38, 39, 40, 41, 42, 43, 44, 45, 46, 47, 48, 49,
    50, 51, 52, 53, 54, 55, 56, 57, 58, 59, 60, 61, 62, 63, 64, 65, 66, 67, 68, 69, 70, 71, 72, 73,
    74, 75, 76, 77, 78, 79, 80, 81>>,
    <<0, 1, 2, 3, 4, 5, 6, 7, 8, 9, 10, 11, 12, 13, 14, 15, 16, 17, 18, 19, 20, 21, 22, 23, 24, 25,
    26, 27, 28, 29, 30, 31, 32, 33, 34, 35, 36, 37, 38, 39, 40, 41, 42, 43, 44, 45, 46, 47, 48, 49,
    50, 51, 52, 53, 54, 55, 56, 57, 58, 59, 60, 61, 62, 63, 64, 65, 66, 67, 68, 69, 70, 71, 72, 73,
    74, 75, 76, 77, 78, 79, 80, 81, 82>>,
    <<0, 1, 2, 3, 4, 5, 6, 7, 8, 9, 10, 11, 12, 13, 14, 15, 16, 17, 18, 19, 20, 21, 22, 23, 24, 25,
    26, 27, 28, 29, 30, 31, 32, 33, 34, 35, 36, 37, 38, 39, 40, 41, 42, 43, 44, 45, 46, 47, 48, 49,
    50, 51, 52, 53, 54, 55, 56, 57, 58, 59, 60, 61, 62, 63, 64, 65, 66, 67, 68, 69, 70, 71, 72, 73,
    74, 75, 76, 77, 78, 79, 80, 81, 82, 83>>,
    <<0, 1, 2, 3, 4, 5, 6, 7, 8, 9, 10, 11, 12, 13, 14, 15, 16, 17, 18, 19, 20, 21, 22, 23, 24, 25,
    26, 27, 28, 29, 30, 31, 32, 33, 34, 35, 36, 37, 38, 39, 40, 41, 42, 43, 44, 45, 46, 47, 48, 49,
    50, 51, 52, 53, 54, 55, 56, 57, 58, 59, 60, 61, 62, 63, 64, 65, 66, 67, 68, 69, 70, 71, 72, 73,
    74, 75, 76, 77, 78, 79, 80, 81, 82, 83, 84>>,
    <<0, 1, 2, 3, 4, 5, 6, 7, 8, 9, 10, 11, 12, 13, 14, 15, 16, 17, 18, 19, 20, 21, 22, 23, 24, 25,
    26, 27, 28, 29, 30, 31, 32, 33, 34, 35, 36, 37, 38, 39, 40, 41, 42, 43, 44, 45, 46, 47, 48, 49,
    50, 51, 52, 53, 54, 55, 56, 57, 58, 59, 60, 61, 62, 63, 64, 65, 66, 67, 68, 69, 70, 71, 72, 73,
    74, 75, 76, 77, 78, 79, 80, 81, 82, 83, 84, 85>>,
    <<0, 1, 2, 3, 4, 5, 6, 7, 8, 9, 10, 11, 12, 13, 14, 15, 16, 17, 18, 19, 20, 21, 22, 23, 24, 25,
    26, 27, 28, 29, 30, 31, 32, 33, 34, 35, 36, 37, 38, 39, 40, 41, 42, 43, 44, 45, 46, 47, 48, 49,
    50, 51, 52, 53, 54, 55, 56, 57, 58, 59, 60, 61, 62, 63, 64, 65, 66, 67, 68, 69, 70, 71, 72, 73,
    74, 75, 76, 77, 78, 79, 80, 81, 82, 83, 84, 85, 86>>,
    <<0, 1, 2, 3, 4, 5, 6, 7, 8, 9, 10, 11, 12, 13, 14, 15, 16, 17, 18, 19, 20, 21, 22, 23, 24, 25,
    26, 27, 28, 29, 30, 31, 32, 33, 34, 35, 36, 37, 38, 39, 40, 41, 42, 43, 44, 45, 46, 47, 48, 49,
    50, 51, 52, 53, 54, 55, 56, 57, 58, 59, 60, 61, 62, 63, 64, 65, 66, 67, 68, 69, 70, 71, 72, 73,
    74, 75, 76, 77, 78, 79, 80, 81, 82, 83, 84, 85, 86, 87>>,
    <<0, 1, 2, 3, 4, 5, 6, 7, 8, 9, 10, 11, 12, 13, 14, 15, 16, 17, 18, 19, 20, 21, 22, 23, 24, 25,
    26, 27, 28, 29, 30, 31, 32, 33, 34, 35, 36, 37, 38, 39, 40, 41, 42, 43, 44, 45, 46, 47, 48, 49,
    50, 51, 52, 53, 54, 55, 56, 57, 58, 59, 60, 61, 62, 63, 64, 65, 66, 67, 68, 69, 70, 71, 72, 73,
    74, 75, 76, 77, 78, 79, 80, 81, 82, 83, 84, 85, 86, 87, 88>>,
    <<0, 1, 2, 3, 4, 5, 6, 7, 8, 9, 10, 11, 12, 13, 14, 15, 16, 17, 18, 19, 20, 21, 22, 23, 24, 25,
    26, 27, 28, 29, 30, 31, 32, 33, 34, 35, 36, 37, 38, 39, 40, 41, 42, 43, 44, 45, 46, 47, 48, 49,
    50, 51, 52, 53, 54, 55, 56, 57, 58, 59, 60, 61, 62, 63, 64, 65, 66, 67, 68, 69, 70, 71, 72, 73,
    74, 75, 76, 77, 78, 79, 80, 81, 82, 83, 84, 85, 86, 87, 88, 89>>,
    <<0, 1, 2, 3, 4, 5, 6, 7, 8, 9, 10, 11, 12, 13, 14, 15, 16, 17, 18, 19, 20, 21, 22, 23, 24, 25,
    26, 27, 28, 29, 30, 31, 32, 33, 34, 35, 36, 37, 38, 39, 40, 41, 42, 43, 44, 45, 46, 47, 48, 49,
    50, 51, 52, 53, 54, 55, 56, 57, 58, 59, 60, 61, 62, 63, 64, 65, 66, 67, 68, 69, 70, 71, 72, 73,
    74, 75, 76, 77, 78, 79, 80, 81, 82, 83, 84, 85, 86, 87, 88, 89, 90>>,
    <<0, 1, 2, 3, 4, 5, 6, 7, 8, 9, 10, 11, 12, 13, 14, 15, 16, 17, 18, 19, 20, 21, 22, 23, 24, 25,
    26, 27, 28, 29, 30, 31, 32, 33, 34, 35, 36, 37, 38, 39, 40, 41, 42, 43, 44, 45, 46, 47, 48, 49,
    50, 51, 52, 53, 54, 55, 56, 57, 58, 59, 60, 61, 62, 63, 64, 65, 66, 67, 68, 69, 70, 71, 72, 73,
    74, 75, 76, 77, 78, 79, 80, 81, 82, 83, 84, 85, 86, 87, 88, 89, 90, 91>>,
    <<0, 1, 2, 3, 4, 5, 6, 7, 8, 9, 10, 11, 12, 13, 14, 15, 16, 17, 18, 19, 20, 21, 22, 23, 24, 25,
    26, 27, 28, 29, 30, 31, 32, 33, 34, 35, 36, 37, 38, 39, 40, 41, 42, 43, 44, 45, 46, 47, 48, 49,
    50, 51, 52, 53, 54, 55, 56, 57, 58, 59, 60, 61, 62, 63, 64, 65, 66, 67, 68, 69, 70, 71, 72, 73,
    74, 75, 76, 77, 78, 79, 80, 81, 82, 83, 84, 85, 86, 87, 88, 89, 90, 91, 92>>,
    <<0, 1, 2, 3, 4, 5, 6, 7, 8, 9, 10, 11, 12, 13, 14, 15, 16, 17, 18, 19, 20, 21, 22, 23, 24, 25,
    26, 27, 28, 29, 30, 31, 32, 33, 34, 35, 36, 37, 38, 39, 40, 41, 42, 43, 44, 45, 46, 47, 48, 49,
    50, 51, 52, 53, 54, 55, 56, 57, 58, 59, 60, 61, 62, 63, 64, 65, 66, 67, 68, 69, 70, 71, 72, 73,
    74, 75, 76, 77, 78, 79, 80, 81, 82, 83, 84, 85, 86, 87, 88, 89, 90, 91, 92, 93>>,
    <<0, 1, 2, 3, 4, 5, 6, 7, 8, 9, 10, 11, 12, 13, 14, 15, 16, 17, 18, 19, 20, 21, 22, 23, 24, 25,
    26, 27, 28, 29, 30, 31, 32, 33, 34, 35, 36, 37, 38, 39, 40, 41, 42, 43, 44, 45, 46, 47, 48, 49,
    50, 51, 52, 53, 54, 55, 56, 57, 58, 59, 60, 61, 62, 63, 64, 65, 66, 67, 68, 69, 70, 71, 72, 73,
    74, 75, 76, 77, 78, 79, 80, 81, 82, 83, 84, 85, 86, 87, 88, 89, 90, 91, 92, 93, 94>>,
    <<0, 1, 2, 3, 4, 5, 6, 7, 8, 9, 10, 11, 12, 13, 14, 15, 16, 17, 18, 19, 20, 21, 22, 23, 24, 25,
    26, 27, 28, 29, 30, 31, 32, 33, 34, 35, 36, 37, 38, 39, 40, 41, 42, 43, 44, 45, 46, 47, 48, 49,
    50, 51, 52, 53, 54, 55, 56, 57, 58, 59, 60, 61, 62, 63, 64, 65, 66, 67, 68, 69, 70, 71, 72, 73,
    74, 75, 76, 77, 78, 79, 80, 81, 82, 83, 84, 85, 86, 87, 88, 89, 90, 91, 92, 93, 94, 95>>,
    <<0, 1, 2, 3, 4, 5, 6, 7, 8, 9, 10, 11, 12, 13, 14, 15, 16, 17, 18, 19, 20, 21, 22, 23, 24, 25,
    26, 27, 28, 29, 30, 31, 32, 33, 34, 35, 36, 37, 38, 39, 40, 41, 42, 43, 44, 45, 46, 47, 48, 49,
    50, 51, 52, 53, 54, 55, 56, 57, 58, 59, 60, 61, 62, 63, 64, 65, 66, 67, 68, 69, 70, 71, 72, 73,
    74, 75, 76, 77, 78, 79, 80, 81, 82, 83, 84, 85, 86, 87, 88, 89, 90, 91, 92, 93, 94, 95, 96>>,
    <<0, 1, 2, 3, 4, 5, 6, 7, 8, 9, 10, 11, 12, 13, 14, 15, 16, 17, 18, 19, 20, 21, 22, 23, 24, 25,
    26, 27, 28, 29, 30, 31, 32, 33, 34, 35, 36, 37, 38, 39, 40, 41, 42, 43, 44, 45, 46, 47, 48, 49,
    50, 51, 52, 53, 54, 55, 56, 57, 58, 59, 60, 61, 62, 63, 64, 65, 66, 67, 68, 69, 70, 71, 72, 73,
    74, 75, 76, 77, 78, 79, 80, 81, 82, 83, 84, 85, 86, 87, 88, 89, 90, 91, 92, 93, 94, 95, 96,
    97>>,
    <<0, 1, 2, 3, 4, 5, 6, 7, 8, 9, 10, 11, 12, 13, 14, 15, 16, 17, 18, 19, 20, 21, 22, 23, 24, 25,
    26, 27, 28, 29, 30, 31, 32, 33, 34, 35, 36, 37, 38, 39, 40, 41, 42, 43, 44, 45, 46, 47, 48, 49,
    50, 51, 52, 53, 54, 55, 56, 57, 58, 59, 60, 61, 62, 63, 64, 65, 66, 67, 68, 69, 70, 71, 72, 73,
    74, 75, 76, 77, 78, 79, 80, 81, 82, 83, 84, 85, 86, 87, 88, 89, 90, 91, 92, 93, 94, 95, 96, 97,
    98>>,
    <<0, 1, 2, 3, 4, 5, 6, 7, 8, 9, 10, 11, 12, 13, 14, 15, 16, 17, 18, 19, 20, 21, 22, 23, 24, 25,
    26, 27, 28, 29, 30, 31, 32, 33, 34, 35, 36, 37, 38, 39, 40, 41, 42, 43, 44, 45, 46, 47, 48, 49,
    50, 51, 52, 53, 54, 55, 56, 57, 58, 59, 60, 61, 62, 63, 64, 65, 66, 67, 68, 69, 70, 71, 72, 73,
    74, 75, 76, 77, 78, 79, 80, 81, 82, 83, 84, 85, 86, 87, 88, 89, 90, 91, 92, 93, 94, 95, 96, 97,
    98, 99>>,
    <<0, 1, 2, 3, 4, 5, 6, 7, 8, 9, 10, 11, 12, 13, 14, 15, 16, 17, 18, 19, 20, 21, 22, 23, 24, 25,
    26, 27, 28, 29, 30, 31, 32, 33, 34, 35, 36, 37, 38, 39, 40, 41, 42, 43, 44, 45, 46, 47, 48, 49,
    50, 51, 52, 53, 54, 55, 56, 57, 58, 59, 60, 61, 62, 63, 64, 65, 66, 67, 68, 69, 70, 71, 72, 73,
    74, 75, 76, 77, 78, 79, 80, 81, 82, 83, 84, 85, 86, 87, 88, 89, 90, 91, 92, 93, 94, 95, 96, 97,
    98, 99, 100>>,
    <<0, 1, 2, 3, 4, 5, 6, 7, 8, 9, 10, 11, 12, 13, 14, 15, 16, 17, 18, 19, 20, 21, 22, 23, 24, 25,
    26, 27, 28, 29, 30, 31, 32, 33, 34, 35, 36, 37, 38, 39, 40, 41, 42, 43, 44, 45, 46, 47, 48, 49,
    50, 51, 52, 53, 54, 55, 56, 57, 58, 59, 60, 61, 62, 63, 64, 65, 66, 67, 68, 69, 70, 71, 72, 73,
    74, 75, 76, 77, 78, 79, 80, 81, 82, 83, 84, 85, 86, 87, 88, 89, 90, 91, 92, 93, 94, 95, 96, 97,
    98, 99, 100, 101>>,
    <<0, 1, 2, 3, 4, 5, 6, 7, 8, 9, 10, 11, 12, 13, 14, 15, 16, 17, 18, 19, 20, 21, 22, 23, 24, 25,
    26, 27, 28, 29, 30, 31, 32, 33, 34, 35, 36, 37, 38, 39, 40, 41, 42, 43, 44, 45, 46, 47, 48, 49,
    50, 51, 52, 53, 54, 55, 56, 57, 58, 59, 60, 61, 62, 63, 64, 65, 66, 67, 68, 69, 70, 71, 72, 73,
    74, 75, 76, 77, 78, 79, 80, 81, 82, 83, 84, 85, 86, 87, 88, 89, 90, 91, 92, 93, 94, 95, 96, 97,
    98, 99, 100, 101, 102>>,
    <<0, 1, 2, 3, 4, 5, 6, 7, 8, 9, 10, 11, 12, 13, 14, 15, 16, 17, 18, 19, 20, 21, 22, 23, 24, 25,
    26, 27, 28, 29, 30, 31, 32, 33, 34, 35, 36, 37, 38, 39, 40, 41, 42, 43, 44, 45, 46, 47, 48, 49,
    50, 51, 52, 53, 54, 55, 56, 57, 58, 59, 60, 61, 62, 63, 64, 65, 66, 67, 68, 69, 70, 71, 72, 73,
    74, 75, 76, 77, 78, 79, 80, 81, 82, 83, 84, 85, 86, 87, 88, 89, 90, 91, 92, 93, 94, 95, 96, 97,
    98, 99, 100, 101, 102, 103>>,
    <<0, 1, 2, 3, 4, 5, 6, 7, 8, 9, 10, 11, 12, 13, 14, 15, 16, 17, 18, 19, 20, 21, 22, 23, 24, 25,
    26, 27, 28, 29, 30, 31, 32, 33, 34, 35, 36, 37, 38, 39, 40, 41, 42, 43, 44, 45, 46, 47, 48, 49,
    50, 51, 52, 53, 54, 55, 56, 57, 58, 59, 60, 61, 62, 63, 64, 65, 66, 67, 68, 69, 70, 71, 72, 73,
    74, 75, 76, 77, 78, 79, 80, 81, 82, 83, 84, 85, 86, 87, 88, 89, 90, 91, 92, 93, 94, 95, 96, 97,
    98, 99, 100, 101, 102, 103, 104>>,
    <<0, 1, 2, 3, 4, 5, 6, 7, 8, 9, 10, 11, 12, 13, 14, 15, 16, 17, 18, 19, 20, 21, 22, 23, 24, 25,
    26, 27, 28, 29, 30, 31, 32, 33, 34, 35, 36, 37, 38, 39, 40, 41, 42, 43, 44, 45, 46, 47, 48, 49,
    50, 51, 52, 53, 54, 55, 56, 57, 58, 59, 60, 61, 62, 63, 64, 65, 66, 67, 68, 69, 70, 71, 72, 73,
    74, 75, 76, 77, 78, 79, 80, 81, 82, 83, 84, 85, 86, 87, 88, 89, 90, 91, 92, 93, 94, 95, 96, 97,
    98, 99, 100, 101, 102, 103, 104, 105>>,
    <<0, 1, 2, 3, 4, 5, 6, 7, 8, 9, 10, 11, 12, 13, 14, 15, 16, 17, 18, 19, 20, 21, 22, 23, 24, 25,
    26, 27, 28, 29, 30, 31, 32, 33, 34, 35, 36, 37, 38, 39, 40, 41, 42, 43, 44, 45, 46, 47, 48, 49,
    50, 51, 52, 53, 54, 55, 56, 57, 58, 59, 60, 61, 62, 63, 64, 65, 66, 67, 68, 69, 70, 71, 72, 73,
    74, 75, 76, 77, 78, 79, 80, 81, 82, 83, 84, 85, 86, 87, 88, 89, 90, 91, 92, 93, 94, 95, 96, 97,
    98, 99, 100, 101, 102, 103, 104, 105, 106>>,
    <<0, 1, 2, 3, 4, 5, 6, 7, 8, 9, 10, 11, 12, 13, 14, 15, 16, 17, 18, 19, 20, 21, 22, 23, 24, 25,
    26, 27, 28, 29, 30, 31, 32, 33, 34, 35, 36, 37, 38, 39, 40, 41, 42, 43, 44, 45, 46, 47, 48, 49,
    50, 51, 52, 53, 54, 55, 56, 57, 58, 59, 60, 61, 62, 63, 64, 65, 66, 67, 68, 69, 70, 71, 72, 73,
    74, 75, 76, 77, 78, 79, 80, 81, 82, 83, 84, 85, 86, 87, 88, 89, 90, 91, 92, 93, 94, 95, 96, 97,
    98, 99, 100, 101, 102, 103, 104, 105, 106, 107>>,
    <<0, 1, 2, 3, 4, 5, 6, 7, 8, 9, 10, 11, 12, 13, 14, 15, 16, 17, 18, 19, 20, 21, 22, 23, 24, 25,
    26, 27, 28, 29, 30, 31, 32, 33, 34, 35, 36, 37, 38, 39, 40, 41, 42, 43, 44, 45, 46, 47, 48, 49,
    50, 51, 52, 53, 54, 55, 56, 57, 58, 59, 60, 61, 62, 63, 64, 65, 66, 67, 68, 69, 70, 71, 72, 73,
    74, 75, 76, 77, 78, 79, 80, 81, 82, 83, 84, 85, 86, 87, 88, 89, 90, 91, 92, 93, 94, 95, 96, 97,
    98, 99, 100, 101, 102, 103, 104, 105, 106, 107, 108>>,
    <<0, 1, 2, 3, 4, 5, 6, 7, 8, 9, 10, 11, 12, 13, 14, 15, 16, 17, 18, 19, 20, 21, 22, 23, 24, 25,
    26, 27, 28, 29, 30, 31, 32, 33, 34, 35, 36, 37, 38, 39, 40, 41, 42, 43, 44, 45, 46, 47, 48, 49,
    50, 51, 52, 53, 54, 55, 56, 57, 58, 59, 60, 61, 62, 63, 64, 65, 66, 67, 68, 69, 70, 71, 72, 73,
    74, 75, 76, 77, 78, 79, 80, 81, 82, 83, 84, 85, 86, 87, 88, 89, 90, 91, 92, 93, 94, 95, 96, 97,
    98, 99, 100, 101, 102, 103, 104, 105, 106, 107, 108, 109>>,
    <<0, 1, 2, 3, 4, 5, 6, 7, 8, 9, 10, 11, 12, 13, 14, 15, 16, 17, 18, 19, 20, 21, 22, 23, 24, 25,
    26, 27, 28, 29, 30, 31, 32, 33, 34, 35, 36, 37, 38, 39, 40, 41, 42, 43, 44, 45, 46, 47, 48, 49,
    50, 51, 52, 53, 54, 55, 56, 57, 58, 59, 60, 61, 62, 63, 64, 65, 66, 67, 68, 69, 70, 71, 72, 73,
    74, 75, 76, 77, 78, 79, 80, 81, 82, 83, 84, 85, 86, 87, 88, 89, 90, 91, 92, 93, 94, 95, 96, 97,
    98, 99, 100, 101, 102, 103, 104, 105, 106, 107, 108, 109, 110>>,
    <<0, 1, 2, 3, 4, 5, 6, 7, 8, 9, 10, 11, 12, 13, 14, 15, 16, 17, 18, 19, 20, 21, 22, 23, 24, 25,
    26, 27, 28, 29, 30, 31, 32, 33, 34, 35, 36, 37, 38, 39, 40, 41, 42, 43, 44, 45, 46, 47, 48, 49,
    50, 51, 52, 53, 54, 55, 56, 57, 58, 59, 60, 61, 62, 63, 64, 65, 66, 67, 68, 69, 70, 71, 72, 73,
    74, 75, 76, 77, 78, 79, 80, 81, 82, 83, 84, 85, 86, 87, 88, 89, 90, 91, 92, 93, 94, 95, 96, 97,
    98, 99, 100, 101, 102, 103, 104, 105, 106, 107, 108, 109, 110, 111>>,
    <<0, 1, 2, 3, 4, 5, 6, 7, 8, 9, 10, 11, 12, 13, 14, 15, 16, 17, 18, 19, 20, 21, 22, 23, 24, 25,
    26, 27, 28, 29, 30, 31, 32, 33, 34, 35, 36, 37, 38, 39, 40, 41, 42, 43, 44, 45, 46, 47, 48, 49,
    50, 51, 52, 53, 54, 55, 56, 57, 58, 59, 60, 61, 62, 63, 64, 65, 66, 67, 68, 69, 70, 71, 72, 73,
    74, 75, 76, 77, 78, 79, 80, 81, 82, 83, 84, 85, 86, 87, 88, 89, 90, 91, 92, 93, 94, 95, 96, 97,
    98, 99, 100, 101, 102, 103, 104, 105, 106, 107, 108, 109, 110, 111, 112>>,
    <<0, 1, 2, 3, 4, 5, 6, 7, 8, 9, 10, 11, 12, 13, 14, 15, 16, 17, 18, 19, 20, 21, 22, 23, 24, 25,
    26, 27, 28, 29, 30, 31, 32, 33, 34, 35, 36, 37, 38, 39, 40, 41, 42, 43, 44, 45, 46, 47, 48, 49,
    50, 51, 52, 53, 54, 55, 56, 57, 58, 59, 60, 61, 62, 63, 64, 65, 66, 67, 68, 69, 70, 71, 72, 73,
    74, 75, 76, 77, 78, 79, 80, 81, 82, 83, 84, 85, 86, 87, 88, 89, 90, 91, 92, 93, 94, 95, 96, 97,
    98, 99, 100, 101, 102, 103, 104, 105, 106, 107, 108, 109, 110, 111, 112, 113>>,
    <<0, 1, 2, 3, 4, 5, 6, 7, 8, 9, 10, 11, 12, 13, 14, 15, 16, 17, 18, 19, 20, 21, 22, 23, 24, 25,
    26, 27, 28, 29, 30, 31, 32, 33, 34, 35, 36, 37, 38, 39, 40, 41, 42, 43, 44, 45, 46, 47, 48, 49,
    50, 51, 52, 53, 54, 55, 56, 57, 58, 59, 60, 61, 62, 63, 64, 65, 66, 67, 68, 69, 70, 71, 72, 73,
    74, 75, 76, 77, 78, 79, 80, 81, 82, 83, 84, 85, 86, 87, 88, 89, 90, 91, 92, 93, 94, 95, 96, 97,
    98, 99, 100, 101, 102, 103, 104, 105, 106, 107, 108, 109, 110, 111, 112, 113, 114>>,
    <<0, 1, 2, 3, 4, 5, 6, 7, 8, 9, 10, 11, 12, 13, 14, 15, 16, 17, 18, 19, 20, 21, 22, 23, 24, 25,
    26, 27, 28, 29, 30, 31, 32, 33, 34, 35, 36, 37, 38, 39, 40, 41, 42, 43, 44, 45, 46, 47, 48, 49,
    50, 51, 52, 53, 54, 55, 56, 57, 58, 59, 60, 61, 62, 63, 64, 65, 66, 67, 68, 69, 70, 71, 72, 73,
    74, 75, 76, 77, 78, 79, 80, 81, 82, 83, 84, 85, 86, 87, 88, 89, 90, 91, 92, 93, 94, 95, 96, 97,
    98, 99, 100, 101, 102, 103, 104, 105, 106, 107, 108, 109, 110, 111, 112, 113, 114, 115>>,
    <<0, 1, 2, 3, 4, 5, 6, 7, 8, 9, 10, 11, 12, 13, 14, 15, 16, 17, 18, 19, 20, 21, 22, 23, 24, 25,
    26, 27, 28, 29, 30, 31, 32, 33, 34, 35, 36, 37, 38, 39, 40, 41, 42, 43, 44, 45, 46, 47, 48, 49,
    50, 51, 52, 53, 54, 55, 56, 57, 58, 59, 60, 61, 62, 63, 64, 65, 66, 67, 68, 69, 70, 71, 72, 73,
    74, 75, 76, 77, 78, 79, 80, 81, 82, 83, 84, 85, 86, 87, 88, 89, 90, 91, 92, 93, 94, 95, 96, 97,
    98, 99, 100, 101, 102, 103, 104, 105, 106, 107, 108, 109, 110, 111, 112, 113, 114, 115, 116>>,
    <<0, 1, 2, 3, 4, 5, 6, 7, 8, 9, 10, 11, 12, 13, 14, 15, 16, 17, 18, 19, 20, 21, 22, 23, 24, 25,
    26, 27, 28, 29, 30, 31, 32, 33, 34, 35, 36, 37, 38, 39, 40, 41, 42, 43, 44, 45, 46, 47, 48, 49,
    50, 51, 52, 53, 54, 55, 56, 57, 58, 59, 60, 61, 62, 63, 64, 65, 66, 67, 68, 69, 70, 71, 72, 73,
    74, 75, 76, 77, 78, 79, 80, 81, 82, 83, 84, 85, 86, 87, 88, 89, 90, 91, 92, 93, 94, 95, 96, 97,
    98, 99, 100, 101, 102, 103, 104, 105, 106, 107, 108, 109, 110, 111, 112, 113, 114, 115, 116,
    117>>,
    <<0, 1, 2, 3, 4, 5, 6, 7, 8, 9, 10, 11, 12, 13, 14, 15, 16, 17, 18, 19, 20, 21, 22, 23, 24, 25,
    26, 27, 28, 29, 30, 31, 32, 33, 34, 35, 36, 37, 38, 39, 40, 41, 42, 43, 44, 45, 46, 47, 48, 49,
    50, 51, 52, 53, 54, 55, 56, 57, 58, 59, 60, 61, 62, 63, 64, 65, 66, 67, 68, 69, 70, 71, 72, 73,
    74, 75, 76, 77, 78, 79, 80, 81, 82, 83, 84, 85, 86, 87, 88, 89, 90, 91, 92, 93, 94, 95, 96, 97,
    98, 99, 100, 101, 102, 103, 104, 105, 106, 107, 108, 109, 110, 111, 112, 113, 114, 115, 116,
    117, 118>>,
    <<0, 1, 2, 3, 4, 5, 6, 7, 8, 9, 10, 11, 12, 13, 14, 15, 16, 17, 18, 19, 20, 21, 22, 23, 24, 25,
    26, 27, 28, 29, 30, 31, 32, 33, 34, 35, 36, 37, 38, 39, 40, 41, 42, 43, 44, 45, 46, 47, 48, 49,
    50, 51, 52, 53, 54, 55, 56, 57, 58, 59, 60, 61, 62, 63, 64, 65, 66, 67, 68, 69, 70, 71, 72, 73,
    74, 75, 76, 77, 78, 79, 80, 81, 82, 83, 84, 85, 86, 87, 88, 89, 90, 91, 92, 93, 94, 95, 96, 97,
    98, 99, 100, 101, 102, 103, 104, 105, 106, 107, 108, 109, 110, 111, 112, 113, 114, 115, 116,
    117, 118, 119>>,
    <<0, 1, 2, 3, 4, 5, 6, 7, 8, 9, 10, 11, 12, 13, 14, 15, 16, 17, 18, 19, 20, 21, 22, 23, 24, 25,
    26, 27, 28, 29, 30, 31, 32, 33, 34, 35, 36, 37, 38, 39, 40, 41, 42, 43, 44, 45, 46, 47, 48, 49,
    50, 51, 52, 53, 54, 55, 56, 57, 58, 59, 60, 61, 62, 63, 64, 65, 66, 67, 68, 69, 70, 71, 72, 73,
    74, 75, 76, 77, 78, 79, 80, 81, 82, 83, 84, 85, 86, 87, 88, 89, 90, 91, 92, 93, 94, 95, 96, 97,
    98, 99, 100, 101, 102, 103, 104, 105, 106, 107, 108, 109, 110, 111, 112, 113, 114, 115, 116,
    117, 118, 119, 120>>,
    <<0, 1, 2, 3, 4, 5, 6, 7, 8, 9, 10, 11, 12, 13, 14, 15, 16, 17, 18, 19, 20, 21, 22, 23, 24, 25,
    26, 27, 28, 29, 30, 31, 32, 33, 34, 35, 36, 37, 38, 39, 40, 41, 42, 43, 44, 45, 46, 47, 48, 49,
    50, 51, 52, 53, 54, 55, 56, 57, 58, 59, 60, 61, 62, 63, 64, 65, 66, 67, 68, 69, 70, 71, 72, 73,
    74, 75, 76, 77, 78, 79, 80, 81, 82, 83, 84, 85, 86, 87, 88, 89, 90, 91, 92, 93, 94, 95, 96, 97,
    98, 99, 100, 101, 102, 103, 104, 105, 106, 107, 108, 109, 110, 111, 112, 113, 114, 115, 116,
    117, 118, 119, 120, 121>>,
    <<0, 1, 2, 3, 4, 5, 6, 7, 8, 9, 10, 11, 12, 13, 14, 15, 16, 17, 18, 19, 20, 21, 22, 23, 24, 25,
    26, 27, 28, 29, 30, 31, 32, 33, 34, 35, 36, 37, 38, 39, 40, 41, 42, 43, 44, 45, 46, 47, 48, 49,
    50, 51, 52, 53, 54, 55, 56, 57, 58, 59, 60, 61, 62, 63, 64, 65, 66, 67, 68, 69, 70, 71, 72, 73,
    74, 75, 76, 77, 78, 79, 80, 81, 82, 83, 84, 85, 86, 87, 88, 89, 90, 91, 92, 93, 94, 95, 96, 97,
    98, 99, 100, 101, 102, 103, 104, 105, 106, 107, 108, 109, 110, 111, 112, 113, 114, 115, 116,
    117, 118, 119, 120, 121, 122>>,
    <<0, 1, 2, 3, 4, 5, 6, 7, 8, 9, 10, 11, 12, 13, 14, 15, 16, 17, 18, 19, 20, 21, 22, 23, 24, 25,
    26, 27, 28, 29, 30, 31, 32, 33, 34, 35, 36, 37, 38, 39, 40, 41, 42, 43, 44, 45, 46, 47, 48, 49,
    50, 51, 52, 53, 54, 55, 56, 57, 58, 59, 60, 61, 62, 63, 64, 65, 66, 67, 68, 69, 70, 71, 72, 73,
    74, 75, 76, 77, 78, 79, 80, 81, 82, 83, 84, 85, 86, 87, 88, 89, 90, 91, 92, 93, 94, 95, 96, 97,
    98, 99, 100, 101, 102, 103, 104, 105, 106, 107, 108, 109, 110, 111, 112, 113, 114, 115, 116,
    117, 118, 119, 120, 121, 122, 123>>,
    <<0, 1, 2, 3, 4, 5, 6, 7, 8, 9, 10, 11, 12, 13, 14, 15, 16, 17, 18, 19, 20, 21, 22, 23, 24, 25,
    26, 27, 28, 29, 30, 31, 32, 33, 34, 35, 36, 37, 38, 39, 40, 41, 42, 43, 44, 45, 46, 47, 48, 49,
    50, 51, 52, 53, 54, 55, 56, 57, 58, 59, 60, 61, 62, 63, 64, 65, 66, 67, 68, 69, 70, 71, 72, 73,
    74, 75, 76, 77, 78, 79, 80, 81, 82, 83, 84, 85, 86, 87, 88, 89, 90, 91, 92, 93, 94, 95, 96, 97,
    98, 99, 100, 101, 102, 103, 104, 105, 106, 107, 108, 109, 110, 111, 112, 113, 114, 115, 116,
    117, 118, 119, 120, 121, 122, 123, 124>>,
    <<0, 1, 2, 3, 4, 5, 6, 7, 8, 9, 10, 11, 12, 13, 14, 15, 16, 17, 18, 19, 20, 21, 22, 23, 24, 25,
    26, 27, 28, 29, 30, 31, 32, 33, 34, 35, 36, 37, 38, 39, 40, 41, 42, 43, 44, 45, 46, 47, 48, 49,
    50, 51, 52, 53, 54, 55, 56, 57, 58, 59, 60, 61, 62, 63, 64, 65, 66, 67, 68, 69, 70, 71, 72, 73,
    74, 75, 76, 77, 78, 79, 80, 81, 82, 83, 84, 85, 86, 87, 88, 89, 90, 91, 92, 93, 94, 95, 96, 97,
    98, 99, 100, 101, 102, 103, 104, 105, 106, 107, 108, 109, 110, 111, 112, 113, 114, 115, 116,
    117, 118, 119, 120, 121, 122, 123, 124, 125>>,
    <<0, 1, 2, 3, 4, 5, 6, 7, 8, 9, 10, 11, 12, 13, 14, 15, 16, 17, 18, 19, 20, 21, 22, 23, 24, 25,
    26, 27, 28, 29, 30, 31, 32, 33, 34, 35, 36, 37, 38, 39, 40, 41, 42, 43, 44, 45, 46, 47, 48, 49,
    50, 51, 52, 53, 54, 55, 56, 57, 58, 59, 60, 61, 62, 63, 64, 65, 66, 67, 68, 69, 70, 71, 72, 73,
    74, 75, 76, 77, 78, 79, 80, 81, 82, 83, 84, 85, 86, 87, 88, 89, 90, 91, 92, 93, 94, 95, 96, 97,
    98, 99, 100, 101, 102, 103, 104, 105, 106, 107, 108, 109, 110, 111, 112, 113, 114, 115, 116,
    117, 118, 119, 120, 121, 122, 123, 124, 125, 126>>,
    <<0, 1, 2, 3, 4, 5, 6, 7, 8, 9, 10, 11, 12, 13, 14, 15, 16, 17, 18, 19, 20, 21, 22, 23, 24, 25,
    26, 27, 28, 29, 30, 31, 32, 33, 34, 35, 36, 37, 38, 39, 40, 41, 42, 43, 44, 45, 46, 47, 48, 49,
    50, 51, 52, 53, 54, 55, 56, 57, 58, 59, 60, 61, 62, 63, 64, 65, 66, 67, 68, 69, 70, 71, 72, 73,
    74, 75, 76, 77, 78, 79, 80, 81, 82, 83, 84, 85, 86, 87, 88, 89, 90, 91, 92, 93, 94, 95, 96, 97,
    98, 99, 100, 101, 102, 103, 104, 105, 106, 107, 108, 109, 110, 111, 112, 113, 114, 115, 116,
    117, 118, 119, 120, 121, 122, 123, 124, 125, 126, 127>>
  >>

\* reflect.hpp to_tuple: for the case N == n (entry n + 1), the names handed to std::tie
\* (std::tuple{} for N == 0) in source order, written as in to_tuple_bindings.
to_tuple_tie ==
  <<
    <<>>,
    <<0>>,
    <<0, 1>>,
    <<0, 1, 2>>,
    <<0, 1, 2, 3>>,
    <<0, 1, 2, 3, 4>>,
    <<0, 1, 2, 3, 4, 5>>,
    <<0, 1, 2, 3, 4, 5, 6>>,
    <<0, 1, 2, 3, 4, 5, 6, 7>>,
    <<0, 1, 2, 3, 4, 5, 6, 7, 8>>,
    <<0, 1, 2, 3, 4, 5, 6, 7, 8, 9>>,
    <<0, 1, 2, 3, 4, 5, 6, 7, 8, 9, 10>>,
    <<0, 1, 2, 3, 4, 5, 6, 7, 8, 9, 10, 11>>,
    <<0, 1, 2, 3, 4, 5, 6, 7, 8, 9, 10, 11, 12>>,
    <<0, 1, 2, 3, 4, 5, 6, 7, 8, 9, 10, 11, 12, 13>>,
    <<0, 1, 2, 3, 4, 5, 6, 7, 8, 9, 10, 11, 12, 13, 14>>,
    <<0, 1, 2, 3, 4, 5, 6, 7, 8, 9, 10, 11, 12, 13, 14, 15>>,
    <<0, 1, 2, 3, 4, 5, 6, 7, 8, 9, 10, 11, 12, 13, 14, 15, 16>>,
    <<0, 1, 2, 3, 4, 5, 6, 7, 8, 9, 10, 11, 12, 13, 14, 15, 16, 17>>,
    <<0, 1, 2, 3, 4, 5, 6, 7, 8, 9, 10, 11, 12, 13, 14, 15, 16, 17, 18>>,
    <<0, 1, 2, 3, 4, 5, 6, 7, 8, 9, 10, 11, 12, 13, 14, 15, 16, 17, 18, 19>>,
    <<0, 1, 2, 3, 4, 5, 6, 7, 8, 9, 10, 11, 12, 13, 14, 15, 16, 17, 18, 19, 20>>,
    <<0, 1, 2, 3, 4, 5, 6, 7, 8, 9, 10, 11, 12, 13, 14, 15, 16, 17, 18, 19, 20, 21>>,
    <<0, 1, 2, 3, 4, 5, 6, 7, 8, 9, 10, 11, 12, 13, 14, 15, 16, 17, 18, 19, 20, 21, 22>>,
    <<0, 1, 2, 3, 4, 5, 6, 7, 8, 9, 10, 11, 12, 13, 14, 15, 16, 17, 18, 19, 20, 21, 22, 23>>,
    <<0, 1, 2, 3, 4, 5, 6, 7, 8, 9, 10, 11, 12, 13, 14, 15, 16, 17, 18, 19, 20, 21, 22, 23, 24>>,
    <<0, 1, 2, 3, 4, 5, 6, 7, 8, 9, 10, 11, 12, 13, 14, 15, 16, 17, 18, 19, 20, 21, 22, 23, 24,
    25>>,
    <<0, 1, 2, 3, 4, 5, 6, 7, 8, 9, 10, 11, 12, 13, 14, 15, 16, 17, 18, 19, 20, 21, 22, 23, 24, 25,
    26>>,
    <<0, 1, 2, 3, 4, 5, 6, 7, 8, 9, 10, 11, 12, 13, 14, 15, 16, 17, 18, 19, 20, 21, 22, 23, 24, 25,
    26, 27>>,
    <<0, 1, 2, 3, 4, 5, 6, 7, 8, 9, 10, 11, 12, 13, 14, 15, 16, 17, 18, 19, 20, 21, 22, 23, 24, 25,
    26, 27, 28>>,
    <<0, 1, 2, 3, 4, 5, 6, 7, 8, 9, 10, 11, 12, 13, 14, 15, 16, 17, 18, 19, 20, 21, 22, 23, 24, 25,
    26, 27, 28, 29>>,
    <<0, 1, 2, 3, 4, 5, 6, 7, 8, 9, 10, 11, 12, 13, 14, 15, 16, 17, 18, 19, 20, 21, 22, 23, 24, 25,
    26, 27, 28, 29, 30>>,
    <<0, 1, 2, 3, 4, 5, 6, 7, 8, 9, 10, 11, 12, 13, 14, 15, 16, 17, 18, 19, 20, 21, 22, 23, 24, 25,
    26, 27, 28, 29, 30, 31>>,
    <<0, 1, 2, 3, 4, 5, 6, 7, 8, 9, 10, 11, 12, 13, 14, 15, 16, 17, 18, 19, 20, 21, 22, 23, 24, 25,
    26, 27, 28, 29, 30, 31, 32>>,
    <<0, 1, 2, 3, 4, 5, 6, 7, 8, 9, 10, 11, 12, 13, 14, 15, 16, 17, 18, 19, 20, 21, 22, 23, 24, 25,
    26, 27, 28, 29, 30, 31, 32, 33>>,
    <<0, 1, 2, 3, 4, 5, 6, 7, 8, 9, 10, 11, 12, 13, 14, 15, 16, 17, 18, 19, 20, 21, 22, 23, 24, 25,
    26, 27, 28, 29, 30, 31, 32, 33, 34>>,
    <<0, 1, 2, 3, 4, 5, 6, 7, 8, 9, 10, 11, 12, 13, 14, 15, 16, 17, 18, 19, 20, 21, 22, 23, 24, 25,
    26, 27, 28, 29, 30, 31, 32, 33, 34, 35>>,
    <<0, 1, 2, 3, 4, 5, 6, 7, 8, 9, 10, 11, 12, 13, 14, 15, 16, 17, 18, 19, 20, 21, 22, 23, 24, 25,
    26, 27, 28, 29, 30, 31, 32, 33, 34, 35, 36>>,
    <<0, 1, 2, 3, 4, 5, 6, 7, 8, 9, 10, 11, 12, 13, 14, 15, 16, 17, 18, 19, 20, 21, 22, 23, 24, 25,
    26, 27, 28, 29, 30, 31, 32, 33, 34, 35, 36, 37>>,
    <<0, 1, 2, 3, 4, 5, 6, 7, 8, 9, 10, 11, 12, 13, 14, 15, 16, 17, 18, 19, 20, 21, 22, 23, 24, 25,
    26, 27, 28, 29, 30, 31, 32, 33, 34, 35, 36, 37, 38>>,
    <<0, 1, 2, 3, 4, 5, 6, 7, 8, 9, 10, 11, 12, 13, 14, 15, 16, 17, 18, 19, 20, 21, 22, 23, 24, 25,
    26, 27, 28, 29, 30, 31, 32, 33, 34, 35, 36, 37, 38, 39>>,
    <<0, 1, 2, 3, 4, 5, 6, 7, 8, 9, 10, 11, 12, 13, 14, 15, 16, 17, 18, 19, 20, 21, 22, 23, 24, 25,
    26, 27, 28, 29, 30, 31, 32, 33, 34, 35, 36, 37, 38, 39, 40>>,
    <<0, 1, 2, 3, 4, 5, 6, 7, 8, 9, 10, 11, 12, 13, 14, 15, 16, 17, 18, 19, 20, 21, 22, 23, 24, 25,
    26, 27, 28, 29, 30, 31, 32, 33, 34, 35, 36, 37, 38, 39, 40, 41>>,
    <<0, 1, 2, 3, 4, 5, 6, 7, 8, 9, 10, 11, 12, 13, 14, 15, 16, 17, 18, 19, 20, 21, 22, 23, 24, 25,
    26, 27, 28, 29, 30, 31, 32, 33, 34, 35, 36, 37, 38, 39, 40, 41, 42>>,
    <<0, 1, 2, 3, 4, 5, 6, 7, 8, 9, 10, 11, 12, 13, 14, 15, 16, 17, 18, 19, 20, 21, 22, 23, 24, 25,
    26, 27, 28, 29, 30, 31, 32, 33, 34, 35, 36, 37, 38, 39, 40, 41, 42, 43>>,
    <<0, 1, 2, 3, 4, 5, 6, 7, 8, 9, 10, 11, 12, 13, 14, 15, 16, 17, 18, 19, 20, 21, 22, 23, 24, 25,
    26, 27, 28, 29, 30, 31, 32, 33, 34, 35, 36, 37, 38, 39, 40, 41, 42, 43, 44>>,
    <<0, 1, 2, 3, 4, 5, 6, 7, 8, 9, 10, 11, 12, 13, 14, 15, 16, 17, 18, 19, 20, 21, 22, 23, 24, 25,
    26, 27, 28, 29, 30, 31, 32, 33, 34, 35, 36, 37, 38, 39, 40, 41, 42, 43, 44, 45>>,
    <<0, 1, 2, 3, 4, 5, 6, 7, 8, 9, 10, 11, 12, 13, 14, 15, 16, 17, 18, 19, 20, 21, 22, 23, 24, 25,
    26, 27, 28, 29, 30, 31, 32, 33, 34, 35, 36, 37, 38, 39, 40, 41, 42, 43, 44, 45, 46>>,
    <<0, 1, 2, 3, 4, 5, 6, 7, 8, 9, 10, 11, 12, 13, 14, 15, 16, 17, 18, 19, 20, 21, 22, 23, 24, 25,
    26, 27, 28, 29, 30, 31, 32, 33, 34, 35, 36, 37, 38, 39, 40, 41, 42, 43, 44, 45, 46, 47>>,
    <<0, 1, 2, 3, 4, 5, 6, 7, 8, 9, 10, 11, 12, 13, 14, 15, 16, 17, 18, 19, 20, 21, 22, 23, 24, 25,
    26, 27, 28, 29, 30, 31, 32, 33, 34, 35, 36, 37, 38, 39, 40, 41, 42, 43, 44, 45, 46, 47, 48>>,
    <<0, 1, 2, 3, 4, 5, 6, 7, 8, 9, 10, 11, 12, 13, 14, 15, 16, 17, 18, 19, 20, 21, 22, 23, 24, 25,
    26, 27, 28, 29, 30, 31, 32, 33, 34, 35, 36, 37, 38, 39, 40, 41, 42, 43, 44, 45, 46, 47, 48,
    49>>,
    <<0, 1, 2, 3, 4, 5, 6, 7, 8, 9, 10, 11, 12, 13, 14, 15, 16, 17, 18, 19, 20, 21, 22, 23, 24, 25,
    26, 27, 28, 29, 30, 31, 32, 33, 34, 35, 36, 37, 38, 39, 40, 41, 42, 43, 44, 45, 46, 47, 48, 49,
    50>>,
    <<0, 1, 2, 3, 4, 5, 6, 7, 8, 9, 10, 11, 12, 13, 14, 15, 16, 17, 18, 19, 20, 21, 22, 23, 24, 25,
    26, 27, 28, 29, 30, 31, 32, 33, 34, 35, 36, 37, 38, 39, 40, 41, 42, 43, 44, 45, 46, 47, 48, 49,
    50, 51>>,
    <<0, 1, 2, 3, 4, 5, 6, 7, 8, 9, 10, 11, 12, 13, 14, 15, 16, 17, 18, 19, 20, 21, 22, 23, 24, 25,
    26, 27, 28, 29, 30, 31, 32, 33, 34, 35, 36, 37, 38, 39, 40, 41, 42, 43, 44, 45, 46, 47, 48, 49,
    50, 51, 52>>,
    <<0, 1, 2, 3, 4, 5, 6, 7, 8, 9, 10, 11, 12, 13, 14, 15, 16, 17, 18, 19, 20, 21, 22, 23, 24, 25,
    26, 27, 28, 29, 30, 31, 32, 33, 34, 35, 36, 37, 38, 39, 40, 41, 42, 43, 44, 45, 46, 47, 48, 49,
    50, 51, 52, 53>>,
    <<0, 1, 2, 3, 4, 5, 6, 7, 8, 9, 10, 11, 12, 13, 14, 15, 16, 17, 18, 19, 20, 21, 22, 23, 24, 25,
    26, 27, 28, 29, 30, 31, 32, 33, 34, 35, 36, 37, 38, 39, 40, 41, 42, 43, 44, 45, 46, 47, 48, 49,
    50, 51, 52, 53, 54>>,
    <<0, 1, 2, 3, 4, 5, 6, 7, 8, 9, 10, 11, 12, 13, 14, 15, 16, 17, 18, 19, 20, 21, 22, 23, 24, 25,
    26, 27, 28, 29, 30, 31, 32, 33, 34, 35, 36, 37, 38, 39, 40, 41, 42, 43, 44, 45, 46, 47, 48, 49,
    50, 51, 52, 53, 54, 55>>,
    <<0, 1, 2, 3, 4, 5, 6, 7, 8, 9, 10, 11, 12, 13, 14, 15, 16, 17, 18, 19, 20, 21, 22, 23, 24, 25,
    26, 27, 28, 29, 30, 31, 32, 33, 34, 35, 36, 37, 38, 39, 40, 41, 42, 43, 44, 45, 46, 47, 48, 49,
    50, 51, 52, 53, 54, 55, 56>>,
    <<0, 1, 2, 3, 4, 5, 6, 7, 8, 9, 10, 11, 12, 13, 14, 15, 16, 17, 18, 19, 20, 21, 22, 23, 24, 25,
    26, 27, 28, 29, 30, 31, 32, 33, 34, 35, 36, 37, 38, 39, 40, 41, 42, 43, 44, 45, 46, 47, 48, 49,
    50, 51, 52, 53, 54, 55, 56, 57>>,
    <<0, 1, 2, 3, 4, 5, 6, 7, 8, 9, 10, 11, 12, 13, 14, 15, 16, 17, 18, 19, 20, 21, 22, 23, 24, 25,
    26, 27, 28, 29, 30, 31, 32, 33, 34, 35, 36, 37, 38, 39, 40, 41, 42, 43, 44, 45, 46, 47, 48, 49,
    50, 51, 52, 53, 54, 55, 56, 57, 58>>,
    <<0, 1, 2, 3, 4, 5, 6, 7, 8, 9, 10, 11, 12, 13, 14, 15, 16, 17, 18, 19, 20, 21, 22, 23, 24, 25,
    26, 27, 28, 29, 30, 31, 32, 33, 34, 35, 36, 37, 38, 39, 40, 41, 42, 43, 44, 45, 46, 47, 48, 49,
    50, 51, 52, 53, 54, 55, 56, 57, 58, 59>>,
    <<0, 1, 2, 3, 4, 5, 6, 7, 8, 9, 10, 11, 12, 13, 14, 15, 16, 17, 18, 19, 20, 21, 22, 23, 24, 25,
    26, 27, 28, 29, 30, 31, 32, 33, 34, 35, 36, 37, 38, 39, 40, 41, 42, 43, 44, 45, 46, 47, 48, 49,
    50, 51, 52, 53, 54, 55, 56, 57, 58, 59, 60>>,
    <<0, 1, 2, 3, 4, 5, 6, 7, 8, 9, 10, 11, 12, 13, 14, 15, 16, 17, 18, 19, 20, 21, 22, 23, 24, 25,
    26, 27, 28, 29, 30, 31, 32, 33, 34, 35, 36, 37, 38, 39, 40, 41, 42, 43, 44, 45, 46, 47, 48, 49,
    50, 51, 52, 53, 54, 55, 56, 57, 58, 59, 60, 61>>,
    <<0, 1, 2, 3, 4, 5, 6, 7, 8, 9, 10, 11, 12, 13, 14, 15, 16, 17, 18, 19, 20, 21, 22, 23, 24, 25,
    26, 27, 28, 29, 30, 31, 32, 33, 34, 35, 36, 37, 38, 39, 40, 41, 42, 43, 44, 45, 46, 47, 48, 49,
    50, 51, 52, 53, 54, 55, 56, 57, 58, 59, 60, 61, 62>>,
    <<0, 1, 2, 3, 4, 5, 6, 7, 8, 9, 10, 11, 12, 13, 14, 15, 16, 17, 18, 19, 20, 21, 22, 23, 24, 25,
    26, 27, 28, 29, 30, 31, 32, 33, 34, 35, 36, 37, 38, 39, 40, 41, 42, 43, 44, 45, 46, 47, 48, 49,
    50, 51, 52, 53, 54, 55, 56, 57, 58, 59, 60, 61, 62, 63>>,
    <<0, 1, 2, 3, 4, 5, 6, 7, 8, 9, 10, 11, 12, 13, 14, 15, 16, 17, 18, 19, 20, 21, 22, 23, 24, 25,
    26, 27, 28, 29, 30, 31, 32, 33, 34, 35, 36, 37, 38, 39, 40, 41, 42, 43, 44, 45, 46, 47, 48, 49,
    50, 51, 52, 53, 54, 55, 56, 57, 58, 59, 60, 61, 62, 63, 64>>,
    <<0, 1, 2, 3, 4, 5, 6, 7, 8, 9, 10, 11, 12, 13, 14, 15, 16, 17, 18, 19, 20, 21, 22, 23, 24, 25,
    26, 27, 28, 29, 30, 31, 32, 33, 34, 35, 36, 37, 38, 39, 40, 41, 42, 43, 44, 45, 46, 47, 48, 49,
    50, 51, 52, 53, 54, 55, 56, 57, 58, 59, 60, 61, 62, 63, 64, 65>>,
    <<0, 1, 2, 3, 4, 5, 6, 7, 8, 9, 10, 11, 12, 13, 14, 15, 16, 17, 18, 19, 20, 21, 22, 23, 24, 25,
    26, 27, 28, 29, 30, 31, 32, 33, 34, 35, 36, 37, 38, 39, 40, 41, 42, 43, 44, 45, 46, 47, 48, 49,
    50, 51, 52, 53, 54, 55, 56, 57, 58, 59, 60, 61, 62, 63, 64, 65, 66>>,
    <<0, 1, 2, 3, 4, 5, 6, 7, 8, 9, 10, 11, 12, 13, 14, 15, 16, 17, 18, 19, 20, 21, 22, 23, 24, 25,
    26, 27, 28, 29, 30, 31, 32, 33, 34, 35, 36, 37, 38, 39, 40, 41, 42, 43, 44, 45, 46, 47, 48, 49,
    50, 51, 52, 53, 54, 55, 56, 57, 58, 59, 60, 61, 62, 63, 64, 65, 66, 67>>,
    <<0, 1, 2, 3, 4, 5, 6, 7, 8, 9, 10, 11, 12, 13, 14, 15, 16, 17, 18, 19, 20, 21, 22, 23, 24, 25,
    26, 27, 28, 29, 30, 31, 32, 33, 34, 35, 36, 37, 38, 39, 40, 41, 42, 43, 44, 45, 46, 47, 48, 49,
    50, 51, 52, 53, 54, 55, 56, 57, 58, 59, 60, 61, 62, 63, 64, 65, 66, 67, 68>>,
    <<0, 1, 2, 3, 4, 5, 6, 7, 8, 9, 10, 11, 12, 13, 14, 15, 16, 17, 18, 19, 20, 21, 22, 23, 24, 25,
    26, 27, 28, 29, 30, 31, 32, 33, 34, 35, 36, 37, 38, 39, 40, 41, 42, 43, 44, 45, 46, 47, 48, 49,
    50, 51, 52, 53, 54, 55, 56, 57, 58, 59, 60, 61, 62, 63, 64, 65, 66, 67, 68, 69>>,
    <<0, 1, 2, 3, 4, 5, 6, 7, 8, 9, 10, 11, 12, 13, 14, 15, 16, 17, 18, 19, 20, 21, 22, 23, 24, 25,
    26, 27, 28, 29, 30, 31, 32, 33, 34, 35, 36, 37, 38, 39, 40, 41, 42, 43, 44, 45, 46, 47, 48, 49,
    50, 51, 52, 53, 54, 55, 56, 57, 58, 59, 60, 61, 62, 63, 64, 65, 66, 67, 68, 69, 70>>,
    <<0, 1, 2, 3, 4, 5, 6, 7, 8, 9, 10, 11, 12, 13, 14, 15, 16, 17, 18, 19, 20, 21, 22, 23, 24, 25,
    26, 27, 28, 29, 30, 31, 32, 33, 34, 35, 36, 37, 38, 39, 40, 41, 42, 43, 44, 45, 46, 47, 48, 49,
    50, 51, 52, 53, 54, 55, 56, 57, 58, 59, 60, 61, 62, 63, 64, 65, 66, 67, 68, 69, 70, 71>>,
    <<0, 1, 2, 3, 4, 5, 6, 7, 8, 9, 10, 11, 12, 13, 14, 15, 16, 17, 18, 19, 20, 21, 22, 23, 24, 25,
    26, 27, 28, 29, 30, 31, 32, 33, 34, 35, 36, 37, 38, 39, 40, 41, 42, 43, 44, 45, 46, 47, 48, 49,
    50, 51, 52, 53, 54, 55, 56, 57, 58, 59, 60, 61, 62, 63, 64, 65, 66, 67, 68, 69, 70, 71, 72>>,
    <<0, 1, 2, 3, 4, 5, 6, 7, 8, 9, 10, 11, 12, 13, 14, 15, 16, 17, 18, 19, 20, 21, 22, 23, 24, 25,
    26, 27, 28, 29, 30, 31, 32, 33, 34, 35, 36, 37, 38, 39, 40, 41, 42, 43, 44, 45, 46, 47, 48, 49,
    50, 51, 52, 53, 54, 55, 56, 57, 58, 59, 60, 61, 62, 63, 64, 65, 66, 67, 68, 69, 70, 71, 72,
    73>>,
    <<0, 1, 2, 3, 4, 5, 6, 7, 8, 9, 10, 11, 12, 13, 14, 15, 16, 17, 18, 19, 20, 21, 22, 23, 24, 25,
    26, 27, 28, 29, 30, 31, 32, 33, 34, 35, 36, 37, 38, 39, 40, 41, 42, 43, 44, 45, 46, 47, 48, 49,
    50, 51, 52, 53, 54, 55, 56, 57, 58, 59, 60, 61, 62, 63, 64, 65, 66, 67, 68, 69, 70, 71, 72, 73,
    74>>,
    <<0, 1, 2, 3, 4, 5, 6, 7, 8, 9, 10, 11, 12, 13, 14, 15, 16, 17, 18, 19, 20, 21, 22, 23, 24, 25,
    26, 27, 28, 29, 30, 31, 32, 33, 34, 35, 36, 37, 38, 39, 40, 41, 42, 43, 44, 45, 46, 47, 48, 49,
    50, 51, 52, 53, 54, 55, 56, 57, 58, 59, 60, 61, 62, 63, 64, 65, 66, 67, 68, 69, 70, 71, 72, 73,
    74, 75>>,
    <<0, 1, 2, 3, 4, 5, 6, 7, 8, 9, 10, 11, 12, 13, 14, 15, 16, 17, 18, 19, 20, 21, 22, 23, 24, 25,
    26, 27, 28, 29, 30, 31, 32, 33, 34, 35, 36, 37, 38, 39, 40, 41, 42, 43, 44, 45, 46, 47, 48, 49,
    50, 51, 52, 53, 54, 55, 56, 57, 58, 59, 60, 61, 62, 63, 64, 65, 66, 67, 68, 69, 70, 71, 72, 73,
    74, 75, 76>>,
    <<0, 1, 2, 3, 4, 5, 6, 7, 8, 9, 10, 11, 12, 13, 14, 15, 16, 17, 18, 19, 20, 21, 22, 23, 24, 25,
    26, 27, 28, 29, 30, 31, 32, 33, 34, 35, 36, 37, 38, 39, 40, 41, 42, 43, 44, 45, 46, 47, 48, 49,
    50, 51, 52, 53, 54, 55, 56, 57, 58, 59, 60, 61, 62, 63, 64, 65, 66, 67, 68, 69, 70, 71, 72, 73,
    74, 75, 76, 77>>,
    <<0, 1, 2, 3, 4, 5, 6, 7, 8, 9, 10, 11, 12, 13, 14, 15, 16, 17, 18, 19, 20, 21, 22, 23, 24, 25,
    26, 27, 28, 29, 30, 31, 32, 33, 34, 35, 36, 37, 38, 39, 40, 41, 42, 43, 44, 45, 46, 47, 48, 49,
    50, 51, 52, 53, 54, 55, 56, 57, 58, 59, 60, 61, 62, 63, 64, 65, 66, 67, 68, 69, 70, 71, 72, 73,
    74, 75, 76, 77, 78>>,
    <<0, 1, 2, 3, 4, 5, 6, 7, 8, 9, 10, 11, 12, 13, 14, 15, 16, 17, 18, 19, 20, 21, 22, 23, 24, 25,
    26, 27, 28, 29, 30, 31, 32, 33, 34, 35, 36, 37, 38, 39, 40, 41, 42, 43, 44, 45, 46, 47, 48, 49,
    50, 51, 52, 53, 54, 55, 56, 57, 58, 59, 60, 61, 62, 63, 64, 65, 66, 67, 68, 69, 70, 71, 72, 73,
    74, 75, 76, 77, 78, 79>>,
    <<0, 1, 2, 3, 4, 5, 6, 7, 8, 9, 10, 11, 12, 13, 14, 15, 16, 17, 18, 19, 20, 21, 22, 23, 24, 25,
    26, 27, 28, 29, 30, 31, 32, 33, 34, 35, 36, 37, 38, 39, 40, 41, 42, 43, 44, 45, 46, 47, 48, 49,
    50, 51, 52, 53, 54, 55, 56, 57, 58, 59, 60, 61, 62, 63, 64, 65, 66, 67, 68, 69, 70, 71, 72, 73,
    74, 75, 76, 77, 78, 79, 80>>,
    <<0, 1, 2, 3, 4, 5, 6, 7, 8, 9, 10, 11, 12, 13, 14, 15, 16, 17, 18, 19, 20, 21, 22, 23, 24, 25,
    26, 27, 28, 29, 30, 31, 32, 33, 34, 35, 36, 37, 38, 39, 40, 41, 42, 43, 44, 45, 46, 47, 48, 49,
    50, 51, 52, 53, 54, 55, 56, 57, 58, 59, 60, 61, 62, 63, 64, 65, 66, 67, 68, 69, 70, 71, 72, 73,
    74, 75, 76, 77, 78, 79, 80, 81>>,
    <<0, 1, 2, 3, 4, 5, 6, 7, 8, 9, 10, 11, 12, 13, 14, 15, 16, 17, 18, 19, 20, 21, 22, 23, 24, 25,
    26, 27, 28, 29, 30, 31, 32, 33, 34, 35, 36, 37, 38, 39, 40, 41, 42, 43, 44, 45, 46, 47, 48, 49,
    50, 51, 52, 53, 54, 55, 56, 57, 58, 59, 60, 61, 62, 63, 64, 65, 66, 67, 68, 69, 70, 71, 72, 73,
    74, 75, 76, 77, 78, 79, 80, 81, 82>>,
    <<0, 1, 2, 3, 4, 5, 6, 7, 8, 9, 10, 11, 12, 13, 14, 15, 16, 17, 18, 19, 20, 21, 22, 23, 24, 25,
    26, 27, 28, 29, 30, 31, 32, 33, 34, 35, 36, 37, 38, 39, 40, 41, 42, 43, 44, 45, 46, 47, 48, 49,
    50, 51, 52, 53, 54, 55, 56, 57, 58, 59, 60, 61, 62, 63, 64, 65, 66, 67, 68, 69, 70, 71, 72, 73,
    74, 75, 76, 77, 78, 79, 80, 81, 82, 83>>,
    <<0, 1, 2, 3, 4, 5, 6, 7, 8, 9, 10, 11, 12, 13, 14, 15, 16, 17, 18, 19, 20, 21, 22, 23, 24, 25,
    26, 27, 28, 29, 30, 31, 32, 33, 34, 35, 36, 37, 38, 39, 40, 41, 42, 43, 44, 45, 46, 47, 48, 49,
    50, 51, 52, 53, 54, 55, 56, 57, 58, 59, 60, 61, 62, 63, 64, 65, 66, 67, 68, 69, 70, 71, 72, 73,
    74, 75, 76, 77, 78, 79, 80, 81, 82, 83, 84>>,
    <<0, 1, 2, 3, 4, 5, 6, 7, 8, 9, 10, 11, 12, 13, 14, 15, 16, 17, 18, 19, 20, 21, 22, 23, 24, 25,
    26, 27, 28, 29, 30, 31, 32, 33, 34, 35, 36, 37, 38, 39, 40, 41, 42, 43, 44, 45, 46, 47, 48, 49,
    50, 51, 52, 53, 54, 55, 56, 57, 58, 59, 60, 61, 62, 63, 64, 65, 66, 67, 68, 69, 70, 71, 72, 73,
    74, 75, 76, 77, 78, 79, 80, 81, 82, 83, 84, 85>>,
    <<0, 1, 2, 3, 4, 5, 6, 7, 8, 9, 10, 11, 12, 13, 14, 15, 16, 17, 18, 19, 20, 21, 22, 23, 24, 25,
    26, 27, 28, 29, 30, 31, 32, 33, 34, 35, 36, 37, 38, 39, 40, 41, 42, 43, 44, 45, 46, 47, 48, 49,
    50, 51, 52, 53, 54, 55, 56, 57, 58, 59, 60, 61, 62, 63, 64, 65, 66, 67, 68, 69, 70, 71, 72, 73,
    74, 75, 76, 77, 78, 79, 80, 81, 82, 83, 84, 85, 86>>,
    <<0, 1, 2, 3, 4, 5, 6, 7, 8, 9, 10, 11, 12, 13, 14, 15, 16, 17, 18, 19, 20, 21, 22, 23, 24, 25,
    26, 27, 28, 29, 30, 31, 32, 33, 34, 35, 36, 37, 38, 39, 40, 41, 42, 43, 44, 45, 46, 47, 48, 49,
    50, 51, 52, 53, 54, 55, 56, 57, 58, 59, 60, 61, 62, 63, 64, 65, 66, 67, 68, 69, 70, 71, 72, 73,
    74, 75, 76, 77, 78, 79, 80, 81, 82, 83, 84, 85, 86, 87>>,
    <<0, 1, 2, 3, 4, 5, 6, 7, 8, 9, 10, 11, 12, 13, 14, 15, 16, 17, 18, 19, 20, 21, 22, 23, 24, 25,
    26, 27, 28, 29, 30, 31, 32, 33, 34, 35, 36, 37, 38, 39, 40, 41, 42, 43, 44, 45, 46, 47, 48, 49,
    50, 51, 52, 53, 54, 55, 56, 57, 58, 59, 60, 61, 62, 63, 64, 65, 66, 67, 68, 69, 70, 71, 72, 73,
    74, 75, 76, 77, 78, 79, 80, 81, 82, 83, 84, 85, 86, 87, 88>>,
    <<0, 1, 2, 3, 4, 5, 6, 7, 8, 9, 10, 11, 12, 13, 14, 15, 16, 17, 18, 19, 20, 21, 22, 23, 24, 25,
    26, 27, 28, 29, 30, 31, 32, 33, 34, 35, 36, 37, 38, 39, 40, 41, 42, 43, 44, 45, 46, 47, 48, 49,
    50, 51, 52, 53, 54, 55, 56, 57, 58, 59, 60, 61, 62, 63, 64, 65, 66, 67, 68, 69, 70, 71, 72, 73,
    74, 75, 76, 77, 78, 79, 80, 81, 82, 83, 84, 85, 86, 87, 88, 89>>,
    <<0, 1, 2, 3, 4, 5, 6, 7, 8, 9, 10, 11, 12, 13, 14, 15, 16, 17, 18, 19, 20, 21, 22, 23, 24, 25,
    26, 27, 28, 29, 30, 31, 32, 33, 34, 35, 36, 37, 38, 39, 40, 41, 42, 43, 44, 45, 46, 47, 48, 49,
    50, 51, 52, 53, 54, 55, 56, 57, 58, 59, 60, 61, 62, 63, 64, 65, 66, 67, 68, 69, 70, 71, 72, 73,
    74, 75, 76, 77, 78, 79, 80, 81, 82, 83, 84, 85, 86, 87, 88, 89, 90>>,
    <<0, 1, 2, 3, 4, 5, 6, 7, 8, 9, 10, 11, 12, 13, 14, 15, 16, 17, 18, 19, 20, 21, 22, 23, 24, 25,
    26, 27, 28, 29, 30, 31, 32, 33, 34, 35, 36, 37, 38, 39, 40, 41, 42, 43, 44, 45, 46, 47, 48, 49,
    50, 51, 52, 53, 54, 55, 56, 57, 58, 59, 60, 61, 62, 63, 64, 65, 66, 67, 68, 69, 70, 71, 72, 73,
    74, 75, 76, 77, 78, 79, 80, 81, 82, 83, 84, 85, 86, 87, 88, 89, 90, 91>>,
    <<0, 1, 2, 3, 4, 5, 6, 7, 8, 9, 10, 11, 12, 13, 14, 15, 16, 17, 18, 19, 20, 21, 22, 23, 24, 25,
    26, 27, 28, 29, 30, 31, 32, 33, 34, 35, 36, 37, 38, 39, 40, 41, 42, 43, 44, 45, 46, 47, 48, 49,
    50, 51, 52, 53, 54, 55, 56, 57, 58, 59, 60, 61, 62, 63, 64, 65, 66, 67, 68, 69, 70, 71, 72, 73,
    74, 75, 76, 77, 78, 79, 80, 81, 82, 83, 84, 85, 86, 87, 88, 89, 90, 91, 92>>,
    <<0, 1, 2, 3, 4, 5, 6, 7, 8, 9, 10, 11, 12, 13, 14, 15, 16, 17, 18, 19, 20, 21, 22, 23, 24, 25,
    26, 27, 28, 29, 30, 31, 32, 33, 34, 35, 36, 37, 38, 39, 40, 41, 42, 43, 44, 45, 46, 47, 48, 49,
    50, 51, 52, 53, 54, 55, 56, 57, 58, 59, 60, 61, 62, 63, 64, 65, 66, 67, 68, 69, 70, 71, 72, 73,
    74, 75, 76, 77, 78, 79, 80, 81, 82, 83, 84, 85, 86, 87, 88, 89, 90, 91, 92, 93>>,
    <<0, 1, 2, 3, 4, 5, 6, 7, 8, 9, 10, 11, 12, 13, 14, 15, 16, 17, 18, 19, 20, 21, 22, 23, 24, 25,
    26, 27, 28, 29, 30, 31, 32, 33, 34, 35, 36, 37, 38, 39, 40, 41, 42, 43, 44, 45, 46, 47, 48, 49,
    50, 51, 52, 53, 54, 55, 56, 57, 58, 59, 60, 61, 62, 63, 64, 65, 66, 67, 68, 69, 70, 71, 72, 73,
    74, 75, 76, 77, 78, 79, 80, 81, 82, 83, 84, 85, 86, 87, 88, 89, 90, 91, 92, 93, 94>>,
    <<0, 1, 2, 3, 4, 5, 6, 7, 8, 9, 10, 11, 12, 13, 14, 15, 16, 17, 18, 19, 20, 21, 22, 23, 24, 25,
    26, 27, 28, 29, 30, 31, 32, 33, 34, 35, 36, 37, 38, 39, 40, 41, 42, 43, 44, 45, 46, 47, 48, 49,
    50, 51, 52, 53, 54, 55, 56, 57, 58, 59, 60, 61, 62, 63, 64, 65, 66, 67, 68, 69, 70, 71, 72, 73,
    74, 75, 76, 77, 78, 79, 80, 81, 82, 83, 84, 85, 86, 87, 88, 89, 90, 91, 92, 93, 94, 95>>,
    <<0, 1, 2, 3, 4, 5, 6, 7, 8, 9, 10, 11, 12, 13, 14, 15, 16, 17, 18, 19, 20, 21, 22, 23, 24, 25,
    26, 27, 28, 29, 30, 31, 32, 33, 34, 35, 36, 37, 38, 39, 40, 41, 42, 43, 44, 45, 46, 47, 48, 49,
    50, 51, 52, 53, 54, 55, 56, 57, 58, 59, 60, 61, 62, 63, 64, 65, 66, 67, 68, 69, 70, 71, 72, 73,
    74, 75, 76, 77, 78, 79, 80, 81, 82, 83, 84, 85, 86, 87, 88, 89, 90, 91, 92, 93, 94, 95, 96>>,
    <<0, 1, 2, 3, 4, 5, 6, 7, 8, 9, 10, 11, 12, 13, 14, 15, 16, 17, 18, 19, 20, 21, 22, 23, 24, 25,
    26, 27, 28, 29, 30, 31, 32, 33, 34, 35, 36, 37, 38, 39, 40, 41, 42, 43, 44, 45, 46, 47, 48, 49,
    50, 51, 52, 53, 54, 55, 56, 57, 58, 59, 60, 61, 62, 63, 64, 65, 66, 67, 68, 69, 70, 71, 72, 73,
    74, 75, 76, 77, 78, 79, 80, 81, 82, 83, 84, 85, 86, 87, 88, 89, 90, 91, 92, 93, 94, 95, 96,
    97>>,
    <<0, 1, 2, 3, 4, 5, 6, 7, 8, 9, 10, 11, 12, 13, 14, 15, 16, 17, 18, 19, 20, 21, 22, 23, 24, 25,
    26, 27, 28, 29, 30, 31, 32, 33, 34, 35, 36, 37, 38, 39, 40, 41, 42, 43, 44, 45, 46, 47, 48, 49,
    50, 51, 52, 53, 54, 55, 56, 57, 58, 59, 60, 61, 62, 63, 64, 65, 66, 67, 68, 69, 70, 71, 72, 73,
    74, 75, 76, 77, 78, 79, 80, 81, 82, 83, 84, 85, 86, 87, 88, 89, 90, 91, 92, 93, 94, 95, 96, 97,
    98>>,
    <<0, 1, 2, 3, 4, 5, 6, 7, 8, 9, 10, 11, 12, 13, 14, 15, 16, 17, 18, 19, 20, 21, 22, 23, 24, 25,
    26, 27, 28, 29, 30, 31, 32, 33, 34, 35, 36, 37, 38, 39, 40, 41, 42, 43, 44, 45, 46, 47, 48, 49,
    50, 51, 52, 53, 54, 55, 56, 57, 58, 59, 60, 61, 62, 63, 64, 65, 66, 67, 68, 69, 70, 71, 72, 73,
    74, 75, 76, 77, 78, 79, 80, 81, 82, 83, 84, 85, 86, 87, 88, 89, 90, 91, 92, 93, 94, 95, 96, 97,
    98, 99>>,
    <<0, 1, 2, 3, 4, 5, 6, 7, 8, 9, 10, 11, 12, 13, 14, 15, 16, 17, 18, 19, 20, 21, 22, 23, 24, 25,
    26, 27, 28, 29, 30, 31, 32, 33, 34, 35, 36, 37, 38, 39, 40, 41, 42, 43, 44, 45, 46, 47, 48, 49,
    50, 51, 52, 53, 54, 55, 56, 57, 58, 59, 60, 61, 62, 63, 64, 65, 66, 67, 68, 69, 70, 71, 72, 73,
    74, 75, 76, 77, 78, 79, 80, 81, 82, 83, 84, 85, 86, 87, 88, 89, 90, 91, 92, 93, 94, 95, 96, 97,
    98, 99, 100>>,
    <<0, 1, 2, 3, 4, 5, 6, 7, 8, 9, 10, 11, 12, 13, 14, 15, 16, 17, 18, 19, 20, 21, 22, 23, 24, 25,
    26, 27, 28, 29, 30, 31, 32, 33, 34, 35, 36, 37, 38, 39, 40, 41, 42, 43, 44, 45, 46, 47, 48, 49,
    50, 51, 52, 53, 54, 55, 56, 57, 58, 59, 60, 61, 62, 63, 64, 65, 66, 67, 68, 69, 70, 71, 72, 73,
    74, 75, 76, 77, 78, 79, 80, 81, 82, 83, 84, 85, 86, 87, 88, 89, 90, 91, 92, 93, 94, 95, 96, 97,
    98, 99, 100, 101>>,
    <<0, 1, 2, 3, 4, 5, 6, 7, 8, 9, 10, 11, 12, 13, 14, 15, 16, 17, 18, 19, 20, 21, 22, 23, 24, 25,
    26, 27, 28, 29, 30, 31, 32, 33, 34, 35, 36, 37, 38, 39, 40, 41, 42, 43, 44, 45, 46, 47, 48, 49,
    50, 51, 52, 53, 54, 55, 56, 57, 58, 59, 60, 61, 62, 63, 64, 65, 66, 67, 68, 69, 70, 71, 72, 73,
    74, 75, 76, 77, 78, 79, 80, 81, 82, 83, 84, 85, 86, 87, 88, 89, 90, 91, 92, 93, 94, 95, 96, 97,
    98, 99, 100, 101, 102>>,
    <<0, 1, 2, 3, 4, 5, 6, 7, 8, 9, 10, 11, 12, 13, 14, 15, 16, 17, 18, 19, 20, 21, 22, 23, 24, 25,
    26, 27, 28, 29, 30, 31, 32, 33, 34, 35, 36, 37, 38, 39, 40, 41, 42, 43, 44, 45, 46, 47, 48, 49,
    50, 51, 52, 53, 54, 55, 56, 57, 58, 59, 60, 61, 62, 63, 64, 65, 66, 67, 68, 69, 70, 71, 72, 73,
    74, 75, 76, 77, 78, 79, 80, 81, 82, 83, 84, 85, 86, 87, 88, 89, 90, 91, 92, 93, 94, 95, 96, 97,
    98, 99, 100, 101, 102, 103>>,
    <<0, 1, 2, 3, 4, 5, 6, 7, 8, 9, 10, 11, 12, 13, 14, 15, 16, 17, 18, 19, 20, 21, 22, 23, 24, 25,
    26, 27, 28, 29, 30, 31, 32, 33, 34, 35, 36, 37, 38, 39, 40, 41, 42, 43, 44, 45, 46, 47, 48, 49,
    50, 51, 52, 53, 54, 55, 56, 57, 58, 59, 60, 61, 62, 63, 64, 65, 66, 67, 68, 69, 70, 71, 72, 73,
    74, 75, 76, 77, 78, 79, 80, 81, 82, 83, 84, 85, 86, 87, 88, 89, 90, 91, 92, 93, 94, 95, 96, 97,
    98, 99, 100, 101, 102, 103, 104>>,
    <<0, 1, 2, 3, 4, 5, 6, 7, 8, 9, 10, 11, 12, 13, 14, 15, 16, 17, 18, 19, 20, 21, 22, 23, 24, 25,
    26, 27, 28, 29, 30, 31, 32, 33, 34, 35, 36, 37, 38, 39, 40, 41, 42, 43, 44, 45, 46, 47, 48, 49,
    50, 51, 52, 53, 54, 55, 56, 57, 58, 59, 60, 61, 62, 63, 64, 65, 66, 67, 68, 69, 70, 71, 72, 73,
    74, 75, 76, 77, 78, 79, 80, 81, 82, 83, 84, 85, 86, 87, 88, 89, 90, 91, 92, 93, 94, 95, 96, 97,
    98, 99, 100, 101, 102, 103, 104, 105>>,
    <<0, 1, 2, 3, 4, 5, 6, 7, 8, 9, 10, 11, 12, 13, 14, 15, 16, 17, 18, 19, 20, 21, 22, 23, 24, 25,
    26, 27, 28, 29, 30, 31, 32, 33, 34, 35, 36, 37, 38, 39, 40, 41, 42, 43, 44, 45, 46, 47, 48, 49,
    50, 51, 52, 53, 54, 55, 56, 57, 58, 59, 60, 61, 62, 63, 64, 65, 66, 67, 68, 69, 70, 71, 72, 73,
    74, 75, 76, 77, 78, 79, 80, 81, 82, 83, 84, 85, 86, 87, 88, 89, 90, 91, 92, 93, 94, 95, 96, 97,
    98, 99, 100, 101, 102, 103, 104, 105, 106>>,
    <<0, 1, 2, 3, 4, 5, 6, 7, 8, 9, 10, 11, 12, 13, 14, 15, 16, 17, 18, 19, 20, 21, 22, 23, 24, 25,
    26, 27, 28, 29, 30, 31, 32, 33, 34, 35, 36, 37, 38, 39, 40, 41, 42, 43, 44, 45, 46, 47, 48, 49,
    50, 51, 52, 53, 54, 55, 56, 57, 58, 59, 60, 61, 62, 63, 64, 65, 66, 67, 68, 69, 70, 71, 72, 73,
    74, 75, 76, 77, 78, 79, 80, 81, 82, 83, 84, 85, 86, 87, 88, 89, 90, 91, 92, 93, 94, 95, 96, 97,
    98, 99, 100, 101, 102, 103, 104, 105, 106, 107>>,
    <<0, 1, 2, 3, 4, 5, 6, 7, 8, 9, 10, 11, 12, 13, 14, 15, 16, 17, 18, 19, 20, 21, 22, 23, 24, 25,
    26, 27, 28, 29, 30, 31, 32, 33, 34, 35, 36, 37, 38, 39, 40, 41, 42, 43, 44, 45, 46, 47, 48, 49,
    50, 51, 52, 53, 54, 55, 56, 57, 58, 59, 60, 61, 62, 63, 64, 65, 66, 67, 68, 69, 70, 71, 72, 73,
    74, 75, 76, 77, 78, 79, 80, 81, 82, 83, 84, 85, 86, 87, 88, 89, 90, 91, 92, 93, 94, 95, 96, 97,
    98, 99, 100, 101, 102, 103, 104, 105, 106, 107, 108>>,
    <<0, 1, 2, 3, 4, 5, 6, 7, 8, 9, 10, 11, 12, 13, 14, 15, 16, 17, 18, 19, 20, 21, 22, 23, 24, 25,
    26, 27, 28, 29, 30, 31, 32, 33, 34, 35, 36, 37, 38, 39, 40, 41, 42, 43, 44, 45, 46, 47, 48, 49,
    50, 51, 52, 53, 54, 55, 56, 57, 58, 59, 60, 61, 62, 63, 64, 65, 66, 67, 68, 69, 70, 71, 72, 73,
    74, 75, 76, 77, 78, 79, 80, 81, 82, 83, 84, 85, 86, 87, 88, 89, 90, 91, 92, 93, 94, 95, 96, 97,
    98, 99, 100, 101, 102, 103, 104, 105, 106, 107, 108, 109>>,
    <<0, 1, 2, 3, 4, 5, 6, 7, 8, 9, 10, 11, 12, 13, 14, 15, 16, 17, 18, 19, 20, 21, 22, 23, 24, 25,
    26, 27, 28, 29, 30, 31, 32, 33, 34, 35, 36, 37, 38, 39, 40, 41, 42, 43, 44, 45, 46, 47, 48, 49,
    50, 51, 52, 53, 54, 55, 56, 57, 58, 59, 60, 61, 62, 63, 64, 65, 66, 67, 68, 69, 70, 71, 72, 73,
    74, 75, 76, 77, 78, 79, 80, 81, 82, 83, 84, 85, 86, 87, 88, 89, 90, 91, 92, 93, 94, 95, 96, 97,
    98, 99, 100, 101, 102, 103, 104, 105, 106, 107, 108, 109, 110>>,
    <<0, 1, 2, 3, 4, 5, 6, 7, 8, 9, 10, 11, 12, 13, 14, 15, 16, 17, 18, 19, 20, 21, 22, 23, 24, 25,
    26, 27, 28, 29, 30, 31, 32, 33, 34, 35, 36, 37, 38, 39, 40, 41, 42, 43, 44, 45, 46, 47, 48, 49,
    50, 51, 52, 53, 54, 55, 56, 57, 58, 59, 60, 61, 62, 63, 64, 65, 66, 67, 68, 69, 70, 71, 72, 73,
    74, 75, 76, 77, 78, 79, 80, 81, 82, 83, 84, 85, 86, 87, 88, 89, 90, 91, 92, 93, 94, 95, 96, 97,
    98, 99, 100, 101, 102, 103, 104, 105, 106, 107, 108, 109, 110, 111>>,
    <<0, 1, 2, 3, 4, 5, 6, 7, 8, 9, 10, 11, 12, 13, 14, 15, 16, 17, 18, 19, 20, 21, 22, 23, 24, 25,
    26, 27, 28, 29, 30, 31, 32, 33, 34, 35, 36, 37, 38, 39, 40, 41, 42, 43, 44, 45, 46, 47, 48, 49,
    50, 51, 52, 53, 54, 55, 56, 57, 58, 59, 60, 61, 62, 63, 64, 65, 66, 67, 68, 69, 70, 71, 72, 73,
    74, 75, 76, 77, 78, 79, 80, 81, 82, 83, 84, 85, 86, 87, 88, 89, 90, 91, 92, 93, 94, 95, 96, 97,
    98, 99, 100, 101, 102, 103, 104, 105, 106, 107, 108, 109, 110, 111, 112>>,
    <<0, 1, 2, 3, 4, 5, 6, 7, 8, 9, 10, 11, 12, 13, 14, 15, 16, 17, 18, 19, 20, 21, 22, 23, 24, 25,
    26, 27, 28, 29, 30, 31, 32, 33, 34, 35, 36, 37, 38, 39, 40, 41, 42, 43, 44, 45, 46, 47, 48, 49,
    50, 51, 52, 53, 54, 55, 56, 57, 58, 59, 60, 61, 62, 63, 64, 65, 66, 67, 68, 69, 70, 71, 72, 73,
    74, 75, 76, 77, 78, 79, 80, 81, 82, 83, 84, 85, 86, 87, 88, 89, 90, 91, 92, 93, 94, 95, 96, 97,
    98, 99, 100, 101, 102, 103, 104, 105, 106, 107, 108, 109, 110, 111, 112, 113>>,
    <<0, 1, 2, 3, 4, 5, 6, 7, 8, 9, 10, 11, 12, 13, 14, 15, 16, 17, 18, 19, 20, 21, 22, 23, 24, 25,
    26, 27, 28, 29, 30, 31, 32, 33, 34, 35, 36, 37, 38, 39, 40, 41, 42, 43, 44, 45, 46, 47, 48, 49,
    50, 51, 52, 53, 54, 55, 56, 57, 58, 59, 60, 61, 62, 63, 64, 65, 66, 67, 68, 69, 70, 71, 72, 73,
    74, 75, 76, 77, 78, 79, 80, 81, 82, 83, 84, 85, 86, 87, 88, 89, 90, 91, 92, 93, 94, 95, 96, 97,
    98, 99, 100, 101, 102, 103, 104, 105, 106, 107, 108, 109, 110, 111, 112, 113, 114>>,
    <<0, 1, 2, 3, 4, 5, 6, 7, 8, 9, 10, 11, 12, 13, 14, 15, 16, 17, 18, 19, 20, 21, 22, 23, 24, 25,
    26, 27, 28, 29, 30, 31, 32, 33, 34, 35, 36, 37, 38, 39, 40, 41, 42, 43, 44, 45, 46, 47, 48, 49,
    50, 51, 52, 53, 54, 55, 56, 57, 58, 59, 60, 61, 62, 63, 64, 65, 66, 67, 68, 69, 70, 71, 72, 73,
    74, 75, 76, 77, 78, 79, 80, 81, 82, 83, 84, 85, 86, 87, 88, 89, 90, 91, 92, 93, 94, 95, 96, 97,
    98, 99, 100, 101, 102, 103, 104, 105, 106, 107, 108, 109, 110, 111, 112, 113, 114, 115>>,
    <<0, 1, 2, 3, 4, 5, 6, 7, 8, 9, 10, 11, 12, 13, 14, 15, 16, 17, 18, 19, 20, 21, 22, 23, 24, 25,
    26, 27, 28, 29, 30, 31, 32, 33, 34, 35, 36, 37, 38, 39, 40, 41, 42, 43, 44, 45, 46, 47, 48, 49,
    50, 51, 52, 53, 54, 55, 56, 57, 58, 59, 60, 61, 62, 63, 64, 65, 66, 67, 68, 69, 70, 71, 72, 73,
    74, 75, 76, 77, 78, 79, 80, 81, 82, 83, 84, 85, 86, 87, 88, 89, 90, 91, 92, 93, 94, 95, 96, 97,
    98, 99, 100, 101, 102, 103, 104, 105, 106, 107, 108, 109, 110, 111, 112, 113, 114, 115, 116>>,
    <<0, 1, 2, 3, 4, 5, 6, 7, 8, 9, 10, 11, 12, 13, 14, 15, 16, 17, 18, 19, 20, 21, 22, 23, 24, 25,
    26, 27, 28, 29, 30, 31, 32, 33, 34, 35, 36, 37, 38, 39, 40, 41, 42, 43, 44, 45, 46, 47, 48, 49,
    50, 51, 52, 53, 54, 55, 56, 57, 58, 59, 60, 61, 62, 63, 64, 65, 66, 67, 68, 69, 70, 71, 72, 73,
    74, 75, 76, 77, 78, 79, 80, 81, 82, 83, 84, 85, 86, 87, 88, 89, 90, 91, 92, 93, 94, 95, 96, 97,
    98, 99, 100, 101, 102, 103, 104, 105, 106, 107, 108, 109, 110, 111, 112, 113, 114, 115, 116,
    117>>,
    <<0, 1, 2, 3, 4, 5, 6, 7, 8, 9, 10, 11, 12, 13, 14, 15, 16, 17, 18, 19, 20, 21, 22, 23, 24, 25,
    26, 27, 28, 29, 30, 31, 32, 33, 34, 35, 36, 37, 38, 39, 40, 41, 42, 43, 44, 45, 46, 47, 48, 49,
    50, 51, 52, 53, 54, 55, 56, 57, 58, 59, 60, 61, 62, 63, 64, 65, 66, 67, 68, 69, 70, 71, 72, 73,
    74, 75, 76, 77, 78, 79, 80, 81, 82, 83, 84, 85, 86, 87, 88, 89, 90, 91, 92, 93, 94, 95, 96, 97,
    98, 99, 100, 101, 102, 103, 104, 105, 106, 107, 108, 109, 110, 111, 112, 113, 114, 115, 116,
    117, 118>>,
    <<0, 1, 2, 3, 4, 5, 6, 7, 8, 9, 10, 11, 12, 13, 14, 15, 16, 17, 18, 19, 20, 21, 22, 23, 24, 25,
    26, 27, 28, 29, 30, 31, 32, 33, 34, 35, 36, 37, 38, 39, 40, 41, 42, 43, 44, 45, 46, 47, 48, 49,
    50, 51, 52, 53, 54, 55, 56, 57, 58, 59, 60, 61, 62, 63, 64, 65, 66, 67, 68, 69, 70, 71, 72, 73,
    74, 75, 76, 77, 78, 79, 80, 81, 82, 83, 84, 85, 86, 87, 88, 89, 90, 91, 92, 93, 94, 95, 96, 97,
    98, 99, 100, 101, 102, 103, 104, 105, 106, 107, 108, 109, 110, 111, 112, 113, 114, 115, 116,
    117, 118, 119>>,
    <<0, 1, 2, 3, 4, 5, 6, 7, 8, 9, 10, 11, 12, 13, 14, 15, 16, 17, 18, 19, 20, 21, 22, 23, 24, 25,
    26, 27, 28, 29, 30, 31, 32, 33, 34, 35, 36, 37, 38, 39, 40, 41, 42, 43, 44, 45, 46, 47, 48, 49,
    50, 51, 52, 53, 54, 55, 56, 57, 58, 59, 60, 61, 62, 63, 64, 65, 66, 67, 68, 69, 70, 71, 72, 73,
    74, 75, 76, 77, 78, 79, 80, 81, 82, 83, 84, 85, 86, 87, 88, 89, 90, 91, 92, 93, 94, 95, 96, 97,
    98, 99, 100, 101, 102, 103, 104, 105, 106, 107, 108, 109, 110, 111, 112, 113, 114, 115, 116,
    117, 118, 119, 120>>,
    <<0, 1, 2, 3, 4, 5, 6, 7, 8, 9, 10, 11, 12, 13, 14, 15, 16, 17, 18, 19, 20, 21, 22, 23, 24, 25,
    26, 27, 28, 29, 30, 31, 32, 33, 34, 35, 36, 37, 38, 39, 40, 41, 42, 43, 44, 45, 46, 47, 48, 49,
    50, 51, 52, 53, 54, 55, 56, 57, 58, 59, 60, 61, 62, 63, 64, 65, 66, 67, 68, 69, 70, 71, 72, 73,
    74, 75, 76, 77, 78, 79, 80, 81, 82, 83, 84, 85, 86, 87, 88, 89, 90, 91, 92, 93, 94, 95, 96, 97,
    98, 99, 100, 101, 102, 103, 104, 105, 106, 107, 108, 109, 110, 111, 112, 113, 114, 115, 116,
    117, 118, 119, 120, 121>>,
    <<0, 1, 2, 3, 4, 5, 6, 7, 8, 9, 10, 11, 12, 13, 14, 15, 16, 17, 18, 19, 20, 21, 22, 23, 24, 25,
    26, 27, 28, 29, 30, 31, 32, 33, 34, 35, 36, 37, 38, 39, 40, 41, 42, 43, 44, 45, 46, 47, 48, 49,
    50, 51, 52, 53, 54, 55, 56, 57, 58, 59, 60, 61, 62, 63, 64, 65, 66, 67, 68, 69, 70, 71, 72, 73,
    74, 75, 76, 77, 78, 79, 80, 81, 82, 83, 84, 85, 86, 87, 88, 89, 90, 91, 92, 93, 94, 95, 96, 97,
    98, 99, 100, 101, 102, 103, 104, 105, 106, 107, 108, 109, 110, 111, 112, 113, 114, 115, 116,
    117, 118, 119, 120, 121, 122>>,
    <<0, 1, 2, 3, 4, 5, 6, 7, 8, 9, 10, 11, 12, 13, 14, 15, 16, 17, 18, 19, 20, 21, 22, 23, 24, 25,
    26, 27, 28, 29, 30, 31, 32, 33, 34, 35, 36, 37, 38, 39, 40, 41, 42, 43, 44, 45, 46, 47, 48, 49,
    50, 51, 52, 53, 54, 55, 56, 57, 58, 59, 60, 61, 62, 63, 64, 65, 66, 67, 68, 69, 70, 71, 72, 73,
    74, 75, 76, 77, 78, 79, 80, 81, 82, 83, 84, 85, 86, 87, 88, 89, 90, 91, 92, 93, 94, 95, 96, 97,
    98, 99, 100, 101, 102, 103, 104, 105, 106, 107, 108, 109, 110, 111, 112, 113, 114, 115, 116,
    117, 118, 119, 120, 121, 122, 123>>,
    <<0, 1, 2, 3, 4, 5, 6, 7, 8, 9, 10, 11, 12, 13, 14, 15, 16, 17, 18, 19, 20, 21, 22, 23, 24, 25,
    26, 27, 28, 29, 30, 31, 32, 33, 34, 35, 36, 37, 38, 39, 40, 41, 42, 43, 44, 45, 46, 47, 48, 49,
    50, 51, 52, 53, 54, 55, 56, 57, 58, 59, 60, 61, 62, 63, 64, 65, 66, 67, 68, 69, 70, 71, 72, 73,
    74, 75, 76, 77, 78, 79, 80, 81, 82, 83, 84, 85, 86, 87, 88, 89, 90, 91, 92, 93, 94, 95, 96, 97,
    98, 99, 100, 101, 102, 103, 104, 105, 106, 107, 108, 109, 110, 111, 112, 113, 114, 115, 116,
    117, 118, 119, 120, 121, 122, 123, 124>>,
    <<0, 1, 2, 3, 4, 5, 6, 7, 8, 9, 10, 11, 12, 13, 14, 15, 16, 17, 18, 19, 20, 21, 22, 23, 24, 25,
    26, 27, 28, 29, 30, 31, 32, 33, 34, 35, 36, 37, 38, 39, 40, 41, 42, 43, 44, 45, 46, 47, 48, 49,
    50, 51, 52, 53, 54, 55, 56, 57, 58, 59, 60, 61, 62, 63, 64, 65, 66, 67, 68, 69, 70, 71, 72, 73,
    74, 75, 76, 77, 78, 79, 80, 81, 82, 83, 84, 85, 86, 87, 88, 89, 90, 91, 92, 93, 94, 95, 96, 97,
    98, 99, 100, 101, 102, 103, 104, 105, 106, 107, 108, 109, 110, 111, 112, 113, 114, 115, 116,
    117, 118, 119, 120, 121, 122, 123, 124, 125>>,
    <<0, 1, 2, 3, 4, 5, 6, 7, 8, 9, 10, 11, 12, 13, 14, 15, 16, 17, 18, 19, 20, 21, 22, 23, 24, 25,
    26, 27, 28, 29, 30, 31, 32, 33, 34, 35, 36, 37, 38, 39, 40, 41, 42, 43, 44, 45, 46, 47, 48, 49,
    50, 51, 52, 53, 54, 55, 56, 57, 58, 59, 60, 61, 62, 63, 64, 65, 66, 67, 68, 69, 70, 71, 72, 73,
    74, 75, 76, 77, 78, 79, 80, 81, 82, 83, 84, 85, 86, 87, 88, 89, 90, 91, 92, 93, 94, 95, 96, 97,
    98, 99, 100, 101, 102, 103, 104, 105, 106, 107, 108, 109, 110, 111, 112, 113, 114, 115, 116,
    117, 118, 119, 120, 121, 122, 123, 124, 125, 126>>,
    <<0, 1, 2, 3, 4, 5, 6, 7, 8, 9, 10, 11, 12, 13, 14, 15, 16, 17, 18, 19, 20, 21, 22, 23, 24, 25,
    26, 27, 28, 29, 30, 31, 32, 33, 34, 35, 36, 37, 38, 39, 40, 41, 42, 43, 44, 45, 46, 47, 48, 49,
    50, 51, 52, 53, 54, 55, 56, 57, 58, 59, 60, 61, 62, 63, 64, 65, 66, 67, 68, 69, 70, 71, 72, 73,
    74, 75, 76, 77, 78, 79, 80, 81, 82, 83, 84, 85, 86, 87, 88, 89, 90, 91, 92, 93, 94, 95, 96, 97,
    98, 99, 100, 101, 102, 103, 104, 105, 106, 107, 108, 109, 110, 111, 112, 113, 114, 115, 116,
    117, 118, 119, 120, 121, 122, 123, 124, 125, 126, 127>>
  >>

\* the requires clause of to_tuple
to_tuple_requires_129(N) == N <= 129

to_tuple_requires(N) == N <= 128

\* whether the if constexpr chain of to_tuple has a case N == n
to_tuple_has_case(N) == N + 1 \in DOMAIN to_tuple_bindings

\* name i (from 1) of the structured binding of case N
binding_name(N, i) == to_tuple_bindings[N + 1][i]

\* name i (from 1) handed to std::tie in case N, two neighbours exchanged
tie_name_swapped(N, i) ==
    IF N >= 2 /\ i = N THEN to_tuple_tie[N + 1][N - 1]
    ELSE IF N >= 2 /\ i = N - 1 THEN to_tuple_tie[N + 1][N]
    ELSE to_tuple_tie[N + 1][i]

\* name i (from 1) handed to std::tie in case N
tie_name(N, i) == to_tuple_tie[N + 1][i]

\* number of names bound, and number of names tied, in case N
binding_count(N) == Len(to_tuple_bindings[N + 1])
tie_count(N) == Len(to_tuple_tie[N + 1])

\* the case N is well formed for a type with k fields: a structured binding
\* names every field exactly once, and std::tie may use declared names only
case_well_formed(N, k) ==
    /\ binding_count(N) = 0 \/ binding_count(N) = k
    /\ \A i, j \in 1..binding_count(N) : binding_name(N, i) = binding_name(N, j) => i = j
    /\ \A i \in 1..tie_count(N) : \E j \in 1..binding_count(N) : tie_name(N, i) = binding_name(N, j)

\* the field a name of case N is bound to, taken one field too far
field_of_name_next(N, name) ==
    ((CHOOSE j \in 1..binding_count(N) : binding_name(N, j) = name) % binding_count(N)) + 1

\* the field (from 1) a name of case N is bound to: the j-th name binds the j-th field
field_of_name(N, name) == CHOOSE j \in 1..binding_count(N) : binding_name(N, j) = name

\* to_tuple<T, N>(t) for a type with k fields: element i of the result refers to
\* the field the i-th tied name is bound to.  Status "void" is the fall-through
\* of the if constexpr chain when no case matches.
to_tuple(N, k) ==
    IF ~to_tuple_requires(N) THEN Rejected
    ELSE IF ~to_tuple_has_case(N) THEN [status |-> "void", val |-> <<>>]
    ELSE IF ~case_well_formed(N, k) THEN Rejected
    ELSE Accepted([i \in 1..tie_count(N) |-> field_of_name(N, tie_name(N, i))])

\* value categories of the argument of to_tuple(T &&t)
Categories == {"lvalue", "const_lvalue", "rvalue", "const_rvalue"}

is_const(c) == c \in {"const_lvalue", "const_rvalue"}

\* category of the references in the result: t is a named parameter, so
\* auto &&[...] = t binds an lvalue, and std::tie packs lvalue references
tie_category(c) == IF is_const(c) THEN "const_lvalue" ELSE "lvalue"

\* values assigned through a reference
FieldValues == {114, 514}

----------------------------------------------------------------------------
\* reflect.hpp as a state machine: count the fields, decompose, assign

\* aggregates whose fields are of mixed kinds, and long aggregates of ints
MixedTypes == UNION {[1..n -> FieldKinds] : n \in 0..MaxMixed}
LongTypes == {[i \in 1..n |-> "int"] : n \in 0..MaxFields}

NoAsg == [i |-> 0, v |-> 0]

\* no query has returned: a position, a truth value, an ordering (-1, 0, 1), and whether
\* the call was refused at compile time
NoRet == [pos |-> 0, ok |-> FALSE, ord |-> 0, rejected |-> FALSE, val |-> 0]

strIdle ==
    /\ str = <<0>> /\ recv = <<0>> /\ self = <<0>> /\ opn = "idle" /\ ret = NoRet
    /\ arg = [ch |-> 0, cnt |-> 0, pos |-> 0, len |-> 0, iter |-> 0, strs |-> <<>>]
refIdle ==
    /\ fields = <<>> /\ Args = <<>> /\ pc = "idle" /\ count = 0 /\ cat = "lvalue"
    /\ tup = Rejected /\ refcat = "lvalue" /\ obj = <<>> /\ before = <<>> /\ asg = NoAsg
nameIdle == Name = <<0>> /\ pcn = "idle" /\ res = Rejected

InitReflect ==
    /\ fields \in MixedTypes \cup LongTypes
    /\ Args = <<>>
    /\ pc = "probe"
    /\ count = 0
    /\ cat = "lvalue"
    /\ tup = Rejected
    /\ refcat = "lvalue"
    /\ obj = [i \in 1..Len(fields) |-> 0]
    /\ before = obj
    /\ asg = NoAsg
    /\ strIdle
    /\ nameIdle

\* number_of_members_impl<T, Args...> recurses with Args..., any_type
ProbeAny ==
    /\ pc = "probe"
    /\ probe_any_ok(fields, Args)
    /\ Args' = Append(Args, "any_type")
    /\ UNCHANGED <<fields, pc, count, cat, tup, refcat, obj, before, asg>>
    /\ UNCHANGED strVars /\ UNCHANGED nameVars

\* number_of_members_impl<T, Args...> recurses with Args..., std::nullptr_t
ProbeNullptr ==
    /\ pc = "probe"
    /\ ~probe_any_ok(fields, Args)
    /\ probe_nullptr_ok(fields, Args)
    /\ Args' = Append(Args, "nullptr_t")
    /\ UNCHANGED <<fields, pc, count, cat, tup, refcat, obj, before, asg>>
    /\ UNCHANGED strVars /\ UNCHANGED nameVars

\* number_of_members_impl<T, Args...> returns sizeof...(Args)
ProbeReturn ==
    /\ pc = "probe"
    /\ ~probe_any_ok(fields, Args)
    /\ ~probe_nullptr_ok(fields, Args)
    /\ count' = members_result(Args)
    /\ pc' = "counted"
    /\ UNCHANGED <<fields, Args, cat, tup, refcat, obj, before, asg>>
    /\ UNCHANGED strVars /\ UNCHANGED nameVars

\* to_tuple(t) with N = number_of_members<T>, t of any value category
ToTuple ==
    /\ pc = "counted"
    /\ \E c \in Categories :
        /\ cat' = c
        /\ tup' = to_tuple(count, Len(fields))
        /\ refcat' = tie_category(c)
        /\ pc' = IF tup'.status = "ok" THEN "decomposed" ELSE "rejected"
    /\ UNCHANGED <<fields, Args, count, obj, before, asg>>
    /\ UNCHANGED strVars /\ UNCHANGED nameVars

\* std::get<i>(to_tuple(t)) = v  on an object that is not const
AssignThrough ==
    /\ pc = "decomposed"
    /\ ~is_const(cat)
    /\ \E i \in 1..Len(tup.val), v \in FieldValues :
        /\ before' = obj
        /\ obj' = [obj EXCEPT ![tup.val[i]] = v]
        /\ asg' = [i |-> i, v |-> v]
    /\ pc' = "assigned"
    /\ UNCHANGED <<fields, Args, count, cat, tup, refcat>>
    /\ UNCHANGED strVars /\ UNCHANGED nameVars

NextReflect == ProbeAny \/ ProbeNullptr \/ ProbeReturn \/ ToTuple \/ AssignThrough

SpecReflect == InitReflect /\ [][NextReflect]_vars

----------------------------------------------------------------------------
\* conststr.hpp: characters and storage

\* cstr::nul
nul == 0

\* the values of the element type char that texts are made of
ValueType == 0..127

\* number of in-range elements of a storage of N + 1 slots: cstr::size()
size(s) == Len(s) - 1

\* _str[i], i counted from 0 as in the source
at(s, i) == s[i + 1]

\* the in-range elements [begin(), end())
range(s) == SubSeq(s, 1, size(s))

\* cstr(): _str{nul}, every slot zero
default_cstr(N) == [i \in 1..(N + 1) |-> nul]

\* cstr(const value_type (&str)[N + 1]): copies N elements and sets _str[N] = nul
cstr(lit) == [i \in 1..Len(lit) |-> IF i < Len(lit) THEN lit[i] ELSE nul]

\* a literal array holding the given characters and the terminator
Lit(chars) == chars \o <<nul>>

SetMax(S) == CHOOSE x \in S : \A y \in S : y <= x
SetMin(S) == CHOOSE x \in S : \A y \in S : x <= y

\* charutils
islower(ch) == ch >= 97 /\ ch <= 122
issuper(ch) == ch >= 65 /\ ch <= 90
isdigit(ch) == ch >= 48 /\ ch <= 57
isalpha(ch) == islower(ch) \/ issuper(ch)
isalnum(ch) == isalpha(ch) \/ isdigit(ch)

----------------------------------------------------------------------------
\* conststr.hpp beside reflect.hpp: the searches name extraction uses

\* str occurs in s at index i
matches_at(s, q, i) ==
    /\ i + size(q) <= size(s)
    /\ \A j \in 0..(size(q) - 1) : at(s, i + j) = at(q, j)

\* find(str, pos): std::search from cbegin() + pos, returned as iter - cbegin()
root_find(s, q, pos) ==
    IF pos >= size(s) THEN size(s)
    ELSE LET hits == {i \in pos..size(s) : matches_at(s, q, i)}
         IN  IF hits = {} THEN size(s) ELSE SetMin(hits)

\* the reverse range of rfind and rfind_if starts at crbegin() when pos >= npos,
\* else at const_reverse_iterator(cbegin() + pos); it covers the indices below b
rbegin_base(s, pos) == IF pos >= size(s) THEN size(s) ELSE pos

\* rfind(str, pos): std::search over the reverse range for the reversed str;
\* iter.base() is one past the match, and cbegin() when nothing is found
root_rfind(s, q, pos) ==
    LET b == rbegin_base(s, pos)
        ends == {e \in size(q)..b : matches_at(s, q, e - size(q))}
        base == IF ends = {} THEN 0 ELSE SetMax(ends)
    IN  size_t(base - size(q))

\* rfind(ch, pos): std::find over the reverse range, returned as
\* iter.base() - cbegin() - 1
root_rfind_ch(s, ch, pos) ==
    LET b == rbegin_base(s, pos)
        hits == {i \in 0..(b - 1) : at(s, i) = ch}
        base == IF hits = {} THEN 0 ELSE SetMax(hits) + 1
    IN  size_t(base - 1)

\* rfind_if(p, pos) returning npos when nothing is found; a predicate p is
\* written as the function from element values to its results
root_rfind_if_npos(s, p, pos) ==
    LET b == rbegin_base(s, pos)
        hits == {i \in 0..(b - 1) : p[at(s, i)]}
    IN  IF hits = {} THEN size(s) ELSE SetMax(hits)

\* rfind_if(p, pos): std::find_if over the reverse range, returned as
\* iter.base() - cbegin() - 1
root_rfind_if(s, p, pos) ==
    LET b == rbegin_base(s, pos)
        hits == {i \in 0..(b - 1) : p[at(s, i)]}
        base == IF hits = {} THEN 0 ELSE SetMax(hits) + 1
    IN  size_t(base - 1)

\* substr<Start, Len>(): requires(N >= Start); a size that wrapped around cannot
\* be the bound of the result's array
root_substr(s, Start, Len_) ==
    IF ~(size(s) >= Start) THEN Rejected
    ELSE LET sz == size_t(Min(size_t(Start + Len_), size(s)) - Start)
         IN  IF Start + sz > size(s) THEN Rejected
             ELSE Accepted([i \in 1..(sz + 1) |-> IF i <= sz THEN s[Start + i] ELSE nul])

----------------------------------------------------------------------------
\* reflect.hpp: field name extraction

\* the lambda isident of basename_of_impl
isident == [ch \in ValueType |-> isalnum(ch) \/ ch = 95]

\* std::not_fn(isident)
not_isident == [ch \in ValueType |-> ~isident[ch]]

basename_of_impl(Nm) ==
    LET end == size_t(root_rfind_if(Nm, isident, size(Nm)) + 1)
        begin == size_t(root_rfind_if(Nm, not_isident, end) + 1)
    IN  root_substr(Nm, begin, size_t(end - begin))

\* the marker pair of name_of_ptr_impl under clang: "{&" and "}]"
prefix == cstr(<<123, 38, 0>>)
suffix == cstr(<<125, 93, 0>>)

\* name_of_ptr_impl taking the path up to the end of the text
name_of_ptr_impl_to_end(name) ==
    LET begin == size_t(root_find(name, prefix, 0) + size(prefix))
        end == size(name)
        path == root_substr(name, begin, size_t(end - begin))
    IN  IF path.status # "ok" THEN Rejected ELSE basename_of_impl(path.val)

name_of_ptr_impl(name) ==
    LET begin == size_t(root_find(name, prefix, 0) + size(prefix))
        end == root_rfind(name, suffix, size(name))
        path == root_substr(name, begin, size_t(end - begin))
    IN  IF path.status # "ok" THEN Rejected ELSE basename_of_impl(path.val)

\* characters of the texts: { & } ] n _
NameChars == {123, 38, 125, 93, 110, 95}

Names == {cstr(Lit(t)) : t \in UNION {[1..n -> NameChars] : n \in 0..MaxName}}

InitName ==
    /\ Name \in Names
    /\ pcn = "input"
    /\ res = Rejected
    /\ strIdle
    /\ refIdle

\* name_of_ptr_impl applied to the text of pretty_name
NameOfPtr ==
    /\ pcn = "input"
    /\ res' = name_of_ptr_impl(Name)
    /\ pcn' = "name_of_ptr"
    /\ UNCHANGED Name
    /\ UNCHANGED strVars /\ UNCHANGED refVars

\* basename_of<Name>
BasenameOf ==
    /\ pcn = "input"
    /\ res' = basename_of_impl(Name)
    /\ pcn' = "basename_of"
    /\ UNCHANGED Name
    /\ UNCHANGED strVars /\ UNCHANGED refVars

NextName == NameOfPtr \/ BasenameOf

SpecName == InitName /\ [][NextName]_vars

----------------------------------------------------------------------------
\* Properties of field-count deduction and field decomposition (SpecReflect)

\* every field accepts the general placeholder or the fallback placeholder
AllFieldsProbeable ==
    \A j \in 1..Len(fields) : accepts_any_type(fields[j]) \/ accepts_nullptr_t(fields[j])

\* the placeholder the deduction settles on for a field
placeholder_for(kind) == IF accepts_any_type(kind) THEN "any_type" ELSE "nullptr_t"

Counted == pc \in {"counted", "decomposed", "rejected", "assigned"}
Decomposed == pc \in {"decomposed", "assigned"}

\* C2: for a default-constructible aggregate with k fields that each accept any_type
\* or nullptr_t, the probe list starts empty and grows by one placeholder per accepted
\* trial, any_type first and nullptr_t only when any_type is rejected, and
\* number_of_members is k, the size of the last accepted list.
C2_MemberCount ==
    (pc # "idle" /\ AllFieldsProbeable) =>
        /\ Len(Args) <= Len(fields)
        /\ \A j \in 1..Len(Args) : Args[j] = placeholder_for(fields[j])
        /\ Counted => (count = Len(fields) /\ count = Len(Args))

C2_Witness ==
    /\ pc = "counted"
    /\ fields = <<"int", "string", "pointer">>
    /\ Args = <<"any_type", "nullptr_t", "any_type">>
    /\ count = 3

C4_CategoryPreserved == (Decomposed /\ Len(tup.val) > 0) => refcat = cat

\* C5: assigning through the reference to field i of a decomposed mutable object sets
\* field i of that object to the assigned value and changes no other field.
C5_AssignFrame ==
    pc = "assigned" =>
        /\ Len(obj) = Len(before)
        /\ obj[asg.i] = asg.v
        /\ \A j \in 1..Len(obj) : j # asg.i => obj[j] = before[j]

C5_Witness ==
    /\ pc = "assigned"
    /\ Len(obj) = 10
    /\ asg = [i |-> 4, v |-> 514]
    /\ obj[4] = 514
    /\ obj[1] = 0

----------------------------------------------------------------------------
\* Properties of field name extraction (SpecName)

\* indices of the identifier characters of a text
ident_positions(Nm) == {i \in 0..(size(Nm) - 1) : isident[at(Nm, i)]}

\* the maximal run of identifier characters that ends at the last identifier
\* character, as a cstr; empty when the text has no identifier character
trailing_identifier(Nm) ==
    IF ident_positions(Nm) = {} THEN cstr(Lit(<<>>))
    ELSE LET e == SetMax(ident_positions(Nm))
             b == SetMin({k \in 0..e : \A i \in k..e : isident[at(Nm, i)]})
         IN  cstr(Lit(SubSeq(Nm, b + 1, e + 1)))

occurs(Nm, q) == \E i \in 0..size(Nm) : matches_at(Nm, q, i)

\* "xxx::yyy::zzz->nnn"
qualified_name ==
    cstr(<<120, 120, 120, 58, 58, 121, 121, 121, 58, 58, 122, 122, 122, 45, 62, 110, 110, 110, 0>>)

\* C7: basename_of(Name) is the maximal run of identifier characters ending at the
\* last identifier character of Name, for every Name: also with trailing
\* non-identifier characters, and the whole Name when it has none at all.
C7_Basename ==
    /\ pcn = "basename_of" => res = Accepted(trailing_identifier(Name))
    /\ basename_of_impl(qualified_name) = Accepted(cstr(<<110, 110, 110, 0>>))

C7_Witness ==
    /\ pcn = "basename_of"
    /\ Name = cstr(Lit(<<110, 95, 110>>))
    /\ res = Accepted(Name)

\* C8: when the signature lacks the prefix marker or lacks the suffix marker, name
\* extraction is rejected and never produces a name.
C8_MissingMarkerRejected ==
    (pcn = "name_of_ptr" /\ (~occurs(Name, prefix) \/ ~occurs(Name, suffix))) =>
        res.status = "rejected"

----------------------------------------------------------------------------
\* include/conststr.hpp: the operations of cstr on storages

\* charutils::toupper and tolower return char
to_char(x) == ((x + 128) % 256) - 128
toupper == [ch \in ValueType |-> to_char(IF ch >= 97 /\ ch <= 122 THEN ch - 32 ELSE ch)]
tolower == [ch \in ValueType |-> to_char(IF ch >= 65 /\ ch <= 90 THEN ch + 32 ELSE ch)]

\* fill(ch): std::fill_n(begin(), size(), ch); _str[N] = nul
fill(s, ch) == [i \in 1..Len(s) |-> IF i <= size(s) THEN ch ELSE nul]

\* cstr(const value_type &ch): a string of N copies of ch
cstr_fill(N, ch) == fill(default_cstr(N), ch)

\* cstr(vs...): _str{vs..., nul}
cstr_pack(vs) == vs \o <<nul>>

\* cstr(const cstr<N, value_type, V2> &other): copy_n, then _str[N] = nul
cstr_from_view(other) == [i \in 1..Len(other) |-> IF i <= size(other) THEN other[i] ELSE nul]

\* with_view<V2>()
with_view(s) == cstr_from_view(s)

\* operator=(str): std::copy_n(other.begin(), size(), begin())
assign(s, other) == [i \in 1..Len(s) |-> IF i <= size(s) THEN other[i] ELSE s[i]]

\* swap(other): std::swap_ranges(begin(), end(), other.begin()); the receiver's side
swap(s, other) == [i \in 1..Len(s) |-> IF i <= size(s) THEN other[i] ELSE s[i]]

\* to_pos(iter); an iterator is written as its offset from cbegin()
to_pos(s, iter) == Min(size_t(Max(iter, 0) - 0), size(s))

\* substr<Start, Len>() copying from the front of the string whatever Start is
substr_from_front(s, Start, Len_) ==
    IF ~(size(s) >= Start) THEN Rejected
    ELSE LET sz == size_t(Min(size_t(Start + Len_), size(s)) - Start)
         IN  IF Start + sz > size(s) THEN Rejected
             ELSE Accepted([i \in 1..(sz + 1) |-> IF i <= sz THEN s[i] ELSE nul])

\* substr<Start, Len>(): requires(N >= Start); the size is computed in size_type, and a
\* size that wrapped around cannot be the bound of the result's array
substr(s, Start, Len_) ==
    IF ~(size(s) >= Start) THEN Rejected
    ELSE LET sz == size_t(Min(size_t(Start + Len_), size(s)) - Start)
         IN  IF Start + sz > size(s) THEN Rejected
             ELSE Accepted([i \in 1..(sz + 1) |-> IF i <= sz THEN s[Start + i] ELSE nul])

\* cut<Len>(): substr<0, Len>() as a cstr<Len>
cut(s, Len_) ==
    LET r == substr(s, 0, Len_)
    IN  IF r.status = "ok" /\ size(r.val) = Len_ THEN r ELSE Rejected

\* remove_prefix<Len>(): substr<Len>(), the length defaulted to N
remove_prefix(s, Len_) == substr(s, Len_, size(s))

\* remove_suffix<Len>(): substr<0, N - Len>()
remove_suffix(s, Len_) == substr(s, 0, size_t(size(s) - Len_))

\* front()
front(s) == at(s, 0)

\* back(): the terminator when the string is empty
back(s) == IF size(s) > 0 THEN at(s, size(s) - 1) ELSE at(s, size(s))

\* pop() dropping the first element instead of the last
pop_front(s) == IF size(s) = 0 THEN Rejected ELSE substr(s, 1, size(s))

\* pop(): cut<N - 1>(); cstr<N - 1> does not exist for N = 0
pop(s) == IF size(s) = 0 THEN Rejected ELSE cut(s, size(s) - 1)

\* insert<Count>(pos, ch) without the clamp of pos, each loop writing where it fits
insert_unclamped(s, pos, ch, Count) ==
    LET N == size(s)
    IN  IF Count = 0 THEN s
        ELSE [k \in 1..(N + Count + 1) |->
                LET i == k - 1
                IN  IF i >= pos + Count /\ i < N + Count THEN at(s, i - Count)
                    ELSE IF i >= pos /\ i < pos + Count /\ i < N + Count THEN ch
                    ELSE IF i < pos /\ i < N THEN at(s, i)
                    ELSE nul]

\* insert<Count>(pos, ch)
insert(s, pos, ch, Count) ==
    LET N == size(s)
        p == IF pos > N THEN N ELSE pos
    IN  IF Count = 0 THEN s
        ELSE [k \in 1..(N + Count + 1) |->
                LET i == k - 1
                IN  IF i >= p + Count /\ i < N + Count THEN at(s, i - Count)
                    ELSE IF i >= p /\ i < p + Count THEN ch
                    ELSE IF i < p THEN at(s, i)
                    ELSE nul]

\* insert<Count>(iter, ch)
insert_iter(s, iter, ch, Count) == insert(s, to_pos(s, iter), ch, Count)

\* insert(pos, str)
insert_str(s, pos, other) ==
    LET N == size(s)
        N2 == size(other)
        p == IF pos > N THEN N ELSE pos
    IN  [k \in 1..(N + N2 + 1) |->
            LET i == k - 1
            IN  IF i >= p + N2 /\ i < N + N2 THEN at(s, i - N2)
                ELSE IF i >= p /\ i < p + N2 THEN at(other, i - p)
                ELSE IF i < p THEN at(s, i)
                ELSE nul]

\* insert(iter, str)
insert_str_iter(s, iter, other) == insert_str(s, to_pos(s, iter), other)

\* append<Count>(ch), the second loop starting one slot late
append_late(s, ch, Count) ==
    LET N == size(s)
    IN  IF Count = 0 THEN s
        ELSE [k \in 1..(N + Count + 1) |->
                LET i == k - 1
                IN  IF i >= N + 1 /\ i < N + Count THEN ch
                    ELSE IF i < N THEN at(s, i)
                    ELSE nul]

\* append<Count>(ch)
append(s, ch, Count) ==
    LET N == size(s)
    IN  IF Count = 0 THEN s
        ELSE [k \in 1..(N + Count + 1) |->
                LET i == k - 1
                IN  IF i >= N /\ i < N + Count THEN ch
                    ELSE IF i < N THEN at(s, i)
                    ELSE nul]

RECURSIVE SumSizes(_)
SumSizes(strs) == IF strs = <<>> THEN 0 ELSE size(Head(strs)) + SumSizes(Tail(strs))

\* the copy loops of flatten:
\*   for (i < COUNT) for (j < LENGTHS[i]) flat[index++] = datas[i][j];
\* datas is counted from 1 here
RECURSIVE flatten_loop(_, _, _, _, _)
flatten_loop(datas, i, j, index, flat) ==
    IF i > Len(datas) THEN flat
    ELSE IF j >= size(datas[i]) THEN flatten_loop(datas, i + 1, 0, index, flat)
    ELSE flatten_loop(datas, i, j + 1, index + 1,
                      [flat EXCEPT ![index + 1] = at(datas[i], j)])

\* flatten(strs...) with the receiver copied last
flatten_receiver_last(s, strs) ==
    IF Len(strs) = 0 THEN s
    ELSE LET datas == strs \o <<s>>
             FLAT_LENGTH == size(s) + SumSizes(strs)
         IN  flatten_loop(datas, 1, 0, 0, default_cstr(FLAT_LENGTH))

\* flatten(strs...)
flatten(s, strs) ==
    IF Len(strs) = 0 THEN s
    ELSE LET datas == <<s>> \o strs
             FLAT_LENGTH == size(s) + SumSizes(strs)
         IN  flatten_loop(datas, 1, 0, 0, default_cstr(FLAT_LENGTH))

\* conststr::flatten(first, strs...): cstr(first).flatten(strs...)
free_flatten(first, strs) == flatten(first, strs)

\* append(str): flatten(str)
append_str(s, other) == flatten(s, <<other>>)

\* operator+(str): append(str)
plus(s, other) == append_str(s, other)

\* to_pos_len(first, last): the position of first and the distance to last, 0 when
\* last precedes first
to_pos_len(s, first, last) ==
    LET first_pos == to_pos(s, first)
        last_pos == to_pos(s, last)
    IN  [pos |-> first_pos, len |-> size_t(Max(first_pos, last_pos) - first_pos)]

\* replace(pos, ch, count)
replace(s, pos, ch, cnt) ==
    LET N == size(s)
        p == IF pos > N THEN N ELSE pos
        end == Min(size_t(p + cnt), N)
    IN  [k \in 1..Len(s) |-> IF k - 1 >= p /\ k - 1 < end THEN ch ELSE s[k]]

\* replace(first, last, ch)
replace_iter(s, first, last, ch) ==
    LET pl == to_pos_len(s, first, last)
        end == Min(size_t(pl.pos + pl.len), size(s))
    IN  [k \in 1..Len(s) |-> IF k - 1 >= pl.pos /\ k - 1 < end THEN ch ELSE s[k]]

\* replace(pos, str, count): the loop runs i over [0, end - pos) and writes ret[i]
replace_str(s, pos, other, cnt) ==
    LET N == size(s)
        p == IF pos > N THEN N ELSE pos
        end == Min(size_t(p + size_t(cnt * size(other))), N)
    IN  [k \in 1..Len(s) |->
            IF k - 1 < size_t(end - p) THEN at(other, (k - 1) % size(other)) ELSE s[k]]

\* replace(first, last, str): the distance from first to last is handed on as count
replace_str_iter(s, first, last, other) ==
    LET pl == to_pos_len(s, first, last)
    IN  replace_str(s, pl.pos, other, pl.len)

\* erase(pos) removing the element after the one at pos
erase_next(s, pos) ==
    LET N == size(s)
    IN  IF N = 0 THEN Rejected
        ELSE IF pos >= N THEN pop(s)
        ELSE Accepted([k \in 1..N |->
                LET i == k - 1
                IN  IF i >= pos + 1 /\ i < N - 1 THEN at(s, i + 1)
                    ELSE IF i < pos + 1 /\ i < N - 1 THEN at(s, i)
                    ELSE nul])

\* erase(pos)
erase(s, pos) ==
    LET N == size(s)
    IN  IF N = 0 THEN Rejected
        ELSE IF pos >= N THEN pop(s)
        ELSE Accepted([k \in 1..N |->
                LET i == k - 1
                IN  IF i >= pos /\ i < N - 1 THEN at(s, i + 1)
                    ELSE IF i < pos THEN at(s, i)
                    ELSE nul])

\* erase(iter): the first loop runs up to to_pos(iter), which may be N
erase_iter(s, iter) ==
    LET N == size(s)
        pos == to_pos(s, iter)
    IN  IF N = 0 THEN Rejected
        ELSE Accepted([k \in 1..N |->
                LET i == k - 1
                IN  IF i >= pos /\ i < N - 1 THEN at(s, i + 1)
                    ELSE IF i < pos THEN at(s, i)
                    ELSE nul])

\* transform(op, pos, len) for pos + len within the size type: the result starts
\* as cstr{} and std::transform writes [pos, min(pos + len, N)); an operation op
\* is written as the function from element values to its results
transform(s, op, pos, len_) ==
    LET N == size(s)
        p == IF pos > N THEN N ELSE pos
        end == Min(size_t(p + len_), N)
    IN  [k \in 1..Len(s) |-> IF k - 1 >= p /\ k - 1 < end THEN op[s[k]] ELSE nul]

\* charutils::is<Chs...>(ch) testing the first value of the pack only
charutils_is_first(Chs) == [ch \in ValueType |-> Chs[1] = ch]

\* charutils::is<Chs...>(ch): ch is one of the values of the pack, its last included
charutils_is(Chs) == [ch \in ValueType |-> \E i \in 1..Len(Chs) : Chs[i] = ch]

\* charutils::just<Ch>
just(Ch) == [ignored \in ValueType |-> Ch]

\* charutils::replace<Chs...>: the last value of the pack for a ch that is<Chs...>
charutils_replace(Chs) ==
    [ch \in ValueType |-> IF charutils_is(Chs)[ch] THEN Chs[Len(Chs)] ELSE ch]

\* charutils::remain<Chs...>
charutils_remain(Chs) ==
    [ch \in ValueType |-> IF charutils_is(Chs)[ch] THEN ch ELSE Chs[Len(Chs)]]

\* the operations of charutils that take a pack, by name, instantiated with Chs
PackOperations(Chs) ==
    [replace |-> charutils_replace(Chs), remain |-> charutils_remain(Chs),
     just |-> just(Chs[Len(Chs)])]

\* replace<Chs...>(pos, len): transform(charutils::replace<Chs...>, pos, len)
replace_chs(s, Chs, pos, len_) == transform(s, charutils_replace(Chs), pos, len_)

\* uppercase() and lowercase()
uppercase(s) == transform(s, toupper, 0, size(s))
lowercase(s) == transform(s, tolower, 0, size(s))

\* charutils::toupper<T>, tolower<T> and invert<T> applied to a value ch of T: the
\* comparisons and the shift by 0x20 are made in T, and the result is returned as
\* char, signed or unsigned as the build has it
case_operation(name, ch, signed) ==
    LET shifted == CASE name = "toupper" -> IF ch >= 97 /\ ch <= 122 THEN ch - 32 ELSE ch
                     [] name = "tolower" -> IF ch >= 65 /\ ch <= 90 THEN ch + 32 ELSE ch
                     [] name = "invert" -> IF ch >= 97 /\ ch <= 122 THEN ch - 32
                                           ELSE IF ch >= 65 /\ ch <= 90 THEN ch + 32
                                           ELSE ch
    IN  IF signed THEN to_char(shifted) ELSE shifted % 256

\* element types T of a cstr<N, T, view_type>; the values the model draws fit them all
ElementTypes == {"char", "wchar_t"}

\* operation_result of charutils::toupper<T> and charutils::tolower<T>: both are
\* declared "constexpr char toupper(T ch)" whatever T is
toupper_result(T) == "char"
tolower_result(T) == "char"

\* uppercase() and lowercase() return transform's cstr<N, result_t, view_t> as
\* cstr<N, value_type, view_type>; cstr has no constructor from a cstr of another
\* element type
returns_as(result_t, T) == result_t = T

----------------------------------------------------------------------------
\* Searches of include/conststr.hpp.  An iterator is the index it points at, counted
\* from cbegin(); a reverse iterator is its base(), so it designates element base - 1
\* and crend() has base 0.

\* npos
npos(s) == size(s)

ispunct(ch) ==
    \/ (ch >= 33 /\ ch <= 47) \/ (ch >= 58 /\ ch <= 64)
    \/ (ch >= 91 /\ ch <= 96) \/ (ch >= 123 /\ ch <= 126)

\* the unary predicates handed to find_if and rfind_if
Predicates ==
    [isalpha |-> [ch \in ValueType |-> isalpha(ch)],
     issuper |-> [ch \in ValueType |-> issuper(ch)],
     ispunct |-> [ch \in ValueType |-> ispunct(ch)]]

\* std::find(first, last, ch)
RECURSIVE std_find(_, _, _, _)
std_find(s, first, last, ch) ==
    IF first >= last THEN last
    ELSE IF at(s, first) = ch THEN first
    ELSE std_find(s, first + 1, last, ch)

\* std::find_if(first, last, p)
RECURSIVE std_find_if(_, _, _, _)
std_find_if(s, first, last, p) ==
    IF first >= last THEN last
    ELSE IF p[at(s, first)] THEN first
    ELSE std_find_if(s, first + 1, last, p)

\* std::find(rfirst, crend(), ch) on reverse iterators
RECURSIVE std_find_reverse(_, _, _)
std_find_reverse(s, base, ch) ==
    IF base = 0 THEN 0
    ELSE IF at(s, base - 1) = ch THEN base
    ELSE std_find_reverse(s, base - 1, ch)

\* std::find_if(rfirst, crend(), p) on reverse iterators
RECURSIVE std_find_if_reverse(_, _, _)
std_find_if_reverse(s, base, p) ==
    IF base = 0 THEN 0
    ELSE IF p[at(s, base - 1)] THEN base
    ELSE std_find_if_reverse(s, base - 1, p)

\* find(ch, pos)
find(s, ch, pos) ==
    IF pos >= npos(s) THEN npos(s)
    ELSE to_pos(s, std_find(s, pos, size(s), ch))

\* find_if(p, pos)
find_if(s, p, pos) ==
    IF pos >= npos(s) THEN npos(s)
    ELSE to_pos(s, std_find_if(s, pos, size(s), p))

\* pos >= npos ? crbegin() : const_reverse_iterator(cbegin() + pos)
reverse_begin(s, pos) == IF pos >= npos(s) THEN size(s) ELSE pos

\* rfind(ch, pos) returning the base of the iterator found
rfind_keeps_base(s, ch, pos) ==
    LET iter == std_find_reverse(s, reverse_begin(s, pos), ch)
    IN  IF iter = 0 THEN npos(s) ELSE to_pos(s, iter)

\* rfind(ch, pos)
rfind(s, ch, pos) ==
    LET iter == std_find_reverse(s, reverse_begin(s, pos), ch)
    IN  IF iter = 0 THEN npos(s) ELSE to_pos(s, iter - 1)

\* rfind_if(p, pos)
rfind_if(s, p, pos) ==
    LET iter == std_find_if_reverse(s, reverse_begin(s, pos), p)
    IN  IF iter = 0 THEN npos(s) ELSE to_pos(s, iter - 1)

\* std::search(first, last, q.cbegin(), q.cend())
RECURSIVE std_search(_, _, _, _)
std_search(s, first, last, q) ==
    IF first + size(q) > last THEN last
    ELSE IF matches_at(s, q, first) THEN first
    ELSE std_search(s, first + 1, last, q)

\* find(str, pos) searching from cbegin() whatever pos is
find_str_from_begin(s, q, pos) ==
    IF pos >= npos(s) THEN npos(s)
    ELSE to_pos(s, std_search(s, 0, size(s), q))

\* find(str, pos)
find_str(s, q, pos) ==
    IF pos >= npos(s) THEN npos(s)
    ELSE to_pos(s, std_search(s, pos, size(s), q))

\* contains(ch)
contains(s, ch) == find(s, ch, 0) # npos(s)

\* contains(str)
contains_str(s, q) == find_str(s, q, 0) # npos(s)

----------------------------------------------------------------------------
\* View types.  The comparisons of a cstr go through its view_type when the view
\* offers the operation and fall back on the elements when it does not.

\* std::string_view; std::span<const T>; a view with operator== and nothing else
ViewTypes == {"string_view", "span", "view_with_equality"}

\* requires { this->operator view_type().starts_with(str); }, and ends_with alike
has_starts_with(V) == V = "string_view"

\* std::equality_comparable<view_type>
equality_comparable(V) == V \in {"string_view", "view_with_equality"}

\* std::three_way_comparable<view_type>
three_way_comparable(V) == V = "string_view"

\* operator view_type(): view_type(data(), size()); view_type(first, count) alike
view_of(s, first, cnt) == SubSeq(s, first + 1, first + cnt)

\* std::equal(first1, last1, first2): the elements of q against s from index first
std_equal(q, s, first) == \A j \in 0..(size(q) - 1) : at(q, j) = at(s, first + j)

\* starts_with(ch)
starts_with_ch(s, ch) == IF size(s) = 0 THEN FALSE ELSE at(s, 0) = ch

\* starts_with(str) for a receiver whose view type is V
starts_with(s, V, q) ==
    IF has_starts_with(V)
    THEN size(q) <= size(s) /\ view_of(s, 0, size(q)) = range(q)
    ELSE IF equality_comparable(V)
    THEN size(s) > size(q) /\ view_of(s, 0, size(q)) = range(q)
    ELSE size(s) > size(q) /\ std_equal(q, s, 0)

\* ends_with(ch)
ends_with_ch(s, ch) == IF size(s) = 0 THEN FALSE ELSE at(s, size(s) - 1) = ch

\* ends_with(str) for a receiver whose view type is V
ends_with(s, V, q) ==
    IF has_starts_with(V)
    THEN size(q) <= size(s) /\ view_of(s, size(s) - size(q), size(q)) = range(q)
    ELSE IF equality_comparable(V)
    THEN size(s) > size(q) /\ view_of(s, size(s) - size(q), size(q)) = range(q)
    ELSE size(s) > size(q) /\ std_equal(q, s, size(s) - size(q))

\* std::equal(first1, last1, first2, last2) on two element sequences
std_equal_ranges(a, b) == Len(a) = Len(b) /\ \A i \in 1..Len(a) : a[i] = b[i]

\* operator==(const cstr<N2, value_type, V2> &): the overload for N2 # N returns false;
\* the overload for N2 = N converts both sides with operator view_type(), the view type
\* V of the receiver, a conversion the other string has only when V2 is V
equals(s, V, other, V2) ==
    IF size(other) # size(s) THEN Accepted(FALSE)
    ELSE IF equality_comparable(V)
    THEN IF V2 = V
         THEN Accepted(view_of(s, 0, size(s)) = view_of(other, 0, size(other)))
         ELSE Rejected
    ELSE Accepted(std_equal_ranges(range(s), range(other)))

\* operator==(const view_type &), the view holding the elements w
equals_view(s, V, w) ==
    IF equality_comparable(V)
    THEN view_of(s, 0, size(s)) = w
    ELSE std_equal_ranges(range(s), w)

\* the value of the char stored as byte b: char is signed or unsigned as the build has it
char_value(b, signed) == IF signed /\ b >= 128 THEN b - 256 ELSE b

Sign(x) == IF x < 0 THEN -1 ELSE IF x > 0 THEN 1 ELSE 0

\* std::basic_string_view::compare, the result of operator<=> on two views:
\* traits_type::compare on the common length, char_traits<char> ordering the elements
\* as unsigned char, then the lengths
string_view_compare(a, b) ==
    LET rlen == Min(Len(a), Len(b))
        diff == {i \in 1..rlen : a[i] # b[i]}
    IN  IF diff # {} THEN Sign(a[SetMin(diff)] - b[SetMin(diff)])
        ELSE Sign(Len(a) - Len(b))

\* std::lexicographical_compare_three_way(first1, last1, first2, last2) from index i,
\* the elements compared with the built-in <=> of value_type
RECURSIVE lexicographical_compare_three_way(_, _, _, _)
lexicographical_compare_three_way(a, b, i, signed) ==
    IF i > Len(a) THEN (IF i > Len(b) THEN 0 ELSE -1)
    ELSE IF i > Len(b) THEN 1
    ELSE IF char_value(a[i], signed) # char_value(b[i], signed)
    THEN Sign(char_value(a[i], signed) - char_value(b[i], signed))
    ELSE lexicographical_compare_three_way(a, b, i + 1, signed)

\* operator<=>(const cstr<N2, value_type, V2> &): both sides converted with
\* operator view_type() of the receiver's view type V when V is three-way comparable
three_way(s, V, other, V2, signed) ==
    IF three_way_comparable(V)
    THEN IF V2 = V
         THEN Accepted(string_view_compare(view_of(s, 0, size(s)),
                                           view_of(other, 0, size(other))))
         ELSE Rejected
    ELSE Accepted(lexicographical_compare_three_way(range(s), range(other), 1, signed))

\* operator<=>(const view_type &), the view holding the elements w
three_way_view(s, V, w, signed) ==
    IF three_way_comparable(V)
    THEN string_view_compare(view_of(s, 0, size(s)), w)
    ELSE lexicographical_compare_three_way(range(s), w, 1, signed)

----------------------------------------------------------------------------
\* The string chain: an operation is applied to the current value, and Chain makes
\* its result the receiver of the next operation

\* most strings given to one flatten call
MaxArgs == 2
\* longest string given as an argument
MaxArgLen == 2
\* largest Count of append<Count> and insert<Count>
MaxCount == 2

\* elements: a, A, !
Chars == {97, 65, 33}

Literals(n) == {Lit(t) : t \in UNION {[1..m -> Chars] : m \in 0..n}}
StringLiterals == Literals(MaxLen)
Strings == {cstr(l) : l \in StringLiterals}
ArgStrings == {cstr(l) : l \in Literals(MaxArgLen)}
ArgLists ==
    UNION {{l \in [1..m -> ArgStrings] : SumSizes(l) <= MaxLen} : m \in 0..MaxArgs}
Positions == 0..(MaxLen + 1)
Iterators == -1..(MaxLen + 1)
Counts == 0..MaxCount
\* lengths handed to substr: the small ones and the largest value of size_type
Lengths == Positions \cup {SizeMod - 1}

\* a char outside ASCII: the byte 0xC8
HighChar == 200
\* the strings a cstr is compared with: over a letter and the char outside ASCII
CompareStrings ==
    {cstr(Lit(t)) : t \in UNION {[1..m -> {97, HighChar}] : m \in 0..MaxArgLen}}

\* values of an element type: letters, a non-letter, and for the wide type values
\* above the range of char, two of them letters plus 256
ElementValues(T) ==
    IF T = "char" THEN {97, 122, 65, 90, 33} ELSE {97, 122, 65, 90, 33, 353, 321, 1000}

\* the packs c1..cn, z of replace<Chs...>: one or two values to replace, and z
Packs == {<<97, 33>>, <<97, 65, 33>>, <<33, 65, 97>>}

NoArg ==
    [ch |-> nul, cnt |-> 0, pos |-> 0, len |-> 0, iter |-> 0, strs |-> <<>>,
     pred |-> "none", view |-> "none", view2 |-> "none", signed |-> TRUE,
     elem |-> "char", last |-> 0, chs |-> <<>>]

\* no call is pending: the value held is the receiver of the next call
Ready == opn = "ready"

\* the constructors, and the member functions not declared const: operator=, fill
\* and swap write _str of *this
writes_this(name) ==
    name \in {"cstr", "cstr_default", "cstr_fill", "cstr_pack", "assign", "fill", "swap"}

\* the receiver after every call leaving it as the result does
receiver_after_in_place(name, s, r) == r

\* the receiver s after the call name returned r: a const member function builds r
\* in a local ret and leaves _str as it was
receiver_after(name, s, r) == IF writes_this(name) THEN r ELSE s

\* operation name with arguments a is called on the current value and returns r
Step(name, a, r) ==
    /\ size(r) <= MaxLen
    /\ str' = r
    /\ recv' = str
    /\ self' = receiver_after(name, str, r)
    /\ opn' = name
    /\ arg' = a
    /\ ret' = NoRet
    /\ UNCHANGED refVars /\ UNCHANGED nameVars

\* the const member function name with arguments a is called on the current value and
\* returns v; the value itself is left as it is
Query(name, a, v) ==
    /\ str' = str
    /\ recv' = str
    /\ self' = str
    /\ opn' = name
    /\ arg' = a
    /\ ret' = v
    /\ UNCHANGED refVars /\ UNCHANGED nameVars

Init ==
    /\ str \in Strings
    /\ recv = str
    /\ self = str
    /\ opn = "ready"
    /\ arg = NoArg
    /\ ret = NoRet
    /\ refIdle
    /\ nameIdle

\* the value just returned is the receiver of the next call
Chain ==
    /\ opn # "ready"
    /\ recv' = str
    /\ self' = str
    /\ opn' = "ready"
    /\ arg' = NoArg
    /\ ret' = NoRet
    /\ UNCHANGED str
    /\ UNCHANGED refVars /\ UNCHANGED nameVars

Construct ==
    /\ Ready
    /\ \E l \in StringLiterals : Step("cstr", [NoArg EXCEPT !.strs = <<l>>], cstr(l))

ConstructDefault ==
    /\ Ready
    /\ \E n \in 0..MaxLen : Step("cstr_default", [NoArg EXCEPT !.cnt = n], default_cstr(n))

ConstructFill ==
    /\ Ready
    /\ \E n \in 0..MaxLen, c \in Chars :
           Step("cstr_fill", [NoArg EXCEPT !.cnt = n, !.ch = c], cstr_fill(n, c))

ConstructPack ==
    /\ Ready
    /\ \E l \in StringLiterals :
           Step("cstr_pack", [NoArg EXCEPT !.strs = <<l>>], cstr_pack(SubSeq(l, 1, Len(l) - 1)))

Fill ==
    /\ Ready
    /\ \E c \in Chars : Step("fill", [NoArg EXCEPT !.ch = c], fill(str, c))

Assign ==
    /\ Ready
    /\ \E o \in Strings :
           /\ size(o) = size(str)
           /\ Step("assign", [NoArg EXCEPT !.strs = <<o>>], assign(str, o))

Swap ==
    /\ Ready
    /\ \E o \in Strings :
           /\ size(o) = size(str)
           /\ Step("swap", [NoArg EXCEPT !.strs = <<o>>], swap(str, o))

WithView ==
    /\ Ready
    /\ Step("with_view", NoArg, with_view(str))

AppendCh ==
    /\ Ready
    /\ \E c \in Chars, n \in Counts :
           Step("append_ch", [NoArg EXCEPT !.ch = c, !.cnt = n], append(str, c, n))

AppendStr ==
    /\ Ready
    /\ \E o \in ArgStrings : Step("append_str", [NoArg EXCEPT !.strs = <<o>>], append_str(str, o))

Plus ==
    /\ Ready
    /\ \E o \in ArgStrings : Step("plus", [NoArg EXCEPT !.strs = <<o>>], plus(str, o))

InsertCh ==
    /\ Ready
    /\ \E p \in Positions, c \in Chars, n \in Counts :
           Step("insert", [NoArg EXCEPT !.pos = p, !.ch = c, !.cnt = n], insert(str, p, c, n))

InsertIter ==
    /\ Ready
    /\ \E it \in Iterators, c \in Chars, n \in Counts :
           Step("insert_iter", [NoArg EXCEPT !.iter = it, !.ch = c, !.cnt = n],
                insert_iter(str, it, c, n))

InsertStr ==
    /\ Ready
    /\ \E p \in Positions, o \in ArgStrings :
           Step("insert_str", [NoArg EXCEPT !.pos = p, !.strs = <<o>>], insert_str(str, p, o))

InsertStrIter ==
    /\ Ready
    /\ \E it \in Iterators, o \in ArgStrings :
           Step("insert_str_iter", [NoArg EXCEPT !.iter = it, !.strs = <<o>>],
                insert_str_iter(str, it, o))

Flatten ==
    /\ Ready
    /\ \E l \in ArgLists :
           /\ size(str) + SumSizes(l) <= MaxLen
           /\ Step("flatten", [NoArg EXCEPT !.strs = l], flatten(str, l))

FreeFlatten ==
    /\ Ready
    /\ \E l \in ArgLists :
           /\ size(str) + SumSizes(l) <= MaxLen
           /\ Step("free_flatten", [NoArg EXCEPT !.strs = l], free_flatten(str, l))

Replace ==
    /\ Ready
    /\ \E p \in Positions, c \in Chars, n \in Counts \cup {SizeMod - 1} :
           Step("replace", [NoArg EXCEPT !.pos = p, !.ch = c, !.cnt = n], replace(str, p, c, n))

ReplaceIter ==
    /\ Ready
    /\ \E f \in Iterators, l \in Iterators, c \in Chars :
           Step("replace_iter", [NoArg EXCEPT !.iter = f, !.last = l, !.ch = c],
                replace_iter(str, f, l, c))

ReplaceStr ==
    /\ Ready
    /\ \E p \in Positions, o \in ArgStrings, n \in Counts :
           /\ p <= size(str) + 1
           /\ Step("replace_str", [NoArg EXCEPT !.pos = p, !.strs = <<o>>, !.cnt = n],
                   replace_str(str, p, o, n))

ReplaceStrIter ==
    /\ Ready
    /\ \E f \in Iterators, l \in Iterators, o \in ArgStrings :
           /\ f <= size(str) /\ l <= size(str) + 1
           /\ Step("replace_str_iter", [NoArg EXCEPT !.iter = f, !.last = l, !.strs = <<o>>],
                   replace_str_iter(str, f, l, o))

Erase ==
    /\ Ready
    /\ \E p \in Positions :
           /\ erase(str, p).status = "ok"
           /\ Step("erase", [NoArg EXCEPT !.pos = p], erase(str, p).val)

EraseIter ==
    /\ Ready
    /\ \E it \in Iterators :
           /\ erase_iter(str, it).status = "ok"
           /\ Step("erase_iter", [NoArg EXCEPT !.iter = it], erase_iter(str, it).val)

Pop ==
    /\ Ready
    /\ pop(str).status = "ok"
    /\ Step("pop", NoArg, pop(str).val)

\* substr<Start, Len>(): the substring, or no value when the call does not compile
Substr ==
    /\ Ready
    /\ \E p \in Positions, n \in Lengths :
           LET r == substr(str, p, n)
               a == [NoArg EXCEPT !.pos = p, !.len = n]
           IN  IF r.status = "ok" THEN Step("substr", a, r.val)
               ELSE Query("substr", a, [NoRet EXCEPT !.rejected = TRUE])

RemovePrefix ==
    /\ Ready
    /\ \E n \in Positions :
           /\ remove_prefix(str, n).status = "ok"
           /\ Step("remove_prefix", [NoArg EXCEPT !.len = n], remove_prefix(str, n).val)

RemoveSuffix ==
    /\ Ready
    /\ \E n \in Positions :
           /\ remove_suffix(str, n).status = "ok"
           /\ Step("remove_suffix", [NoArg EXCEPT !.len = n], remove_suffix(str, n).val)

Cut ==
    /\ Ready
    /\ \E n \in Positions :
           /\ cut(str, n).status = "ok"
           /\ Step("cut", [NoArg EXCEPT !.len = n], cut(str, n).val)

Transform ==
    /\ Ready
    /\ \E p \in Positions, n \in Positions :
           Step("transform", [NoArg EXCEPT !.pos = p, !.len = n], transform(str, toupper, p, n))

\* a call of charutils::toupper<T>, tolower<T> or invert<T>, and for invert a
\* second call on the result of the first
CaseOperation ==
    /\ Ready
    /\ \E T \in ElementTypes, n \in {"toupper", "tolower", "invert"}, sg \in BOOLEAN :
           \E ch \in ElementValues(T) :
               LET r == case_operation(n, ch, sg)
               IN  Query("case_operation",
                         [NoArg EXCEPT !.elem = T, !.pred = n, !.ch = ch, !.signed = sg],
                         [NoRet EXCEPT !.val = r, !.ord = case_operation(n, r, sg)])

TransformWith ==
    /\ Ready
    /\ \E Chs \in Packs : \E o \in DOMAIN PackOperations(Chs) :
           Step("transform_with", [NoArg EXCEPT !.chs = Chs, !.pred = o],
                transform(str, PackOperations(Chs)[o], 0, size(str)))

ReplaceChs ==
    /\ Ready
    /\ \E Chs \in Packs, p \in Positions, n \in Positions :
           /\ p <= size(str) + 1 /\ n <= size(str) + 1
           /\ Step("replace_chs", [NoArg EXCEPT !.chs = Chs, !.pos = p, !.len = n],
                   replace_chs(str, Chs, p, n))

Uppercase ==
    /\ Ready
    /\ \E T \in ElementTypes :
           LET a == [NoArg EXCEPT !.elem = T]
           IN  IF returns_as(toupper_result(T), T)
               THEN Step("uppercase", a, uppercase(str))
               ELSE Query("uppercase", a, [NoRet EXCEPT !.rejected = TRUE])

Lowercase ==
    /\ Ready
    /\ \E T \in ElementTypes :
           LET a == [NoArg EXCEPT !.elem = T]
           IN  IF returns_as(tolower_result(T), T)
               THEN Step("lowercase", a, lowercase(str))
               ELSE Query("lowercase", a, [NoRet EXCEPT !.rejected = TRUE])

PredicateNames == {"isalpha", "issuper", "ispunct"}

Find ==
    /\ Ready
    /\ \E c \in Chars, p \in Positions :
           Query("find", [NoArg EXCEPT !.ch = c, !.pos = p],
                 [NoRet EXCEPT !.pos = find(str, c, p)])

Rfind ==
    /\ Ready
    /\ \E c \in Chars, p \in Positions :
           Query("rfind", [NoArg EXCEPT !.ch = c, !.pos = p],
                 [NoRet EXCEPT !.pos = rfind(str, c, p)])

FindIf ==
    /\ Ready
    /\ \E n \in PredicateNames, p \in Positions :
           Query("find_if", [NoArg EXCEPT !.pred = n, !.pos = p],
                 [NoRet EXCEPT !.pos = find_if(str, Predicates[n], p)])

RfindIf ==
    /\ Ready
    /\ \E n \in PredicateNames, p \in Positions :
           Query("rfind_if", [NoArg EXCEPT !.pred = n, !.pos = p],
                 [NoRet EXCEPT !.pos = rfind_if(str, Predicates[n], p)])

\* rfind(ch, pos), rfind(str, pos) and rfind_if(p, pos) of the header conststr.hpp
RootRfind ==
    /\ Ready
    /\ \E c \in Chars, p \in Positions :
           /\ p <= size(str) + 1
           /\ Query("root_rfind", [NoArg EXCEPT !.ch = c, !.pos = p],
                    [NoRet EXCEPT !.pos = root_rfind_ch(str, c, p)])

RootRfindStr ==
    /\ Ready
    /\ \E q \in ArgStrings, p \in Positions :
           /\ p <= size(str) + 1
           /\ Query("root_rfind_str", [NoArg EXCEPT !.strs = <<q>>, !.pos = p],
                    [NoRet EXCEPT !.pos = root_rfind(str, q, p)])

RootRfindIf ==
    /\ Ready
    /\ \E n \in PredicateNames, p \in Positions :
           /\ p <= size(str) + 1
           /\ Query("root_rfind_if", [NoArg EXCEPT !.pred = n, !.pos = p],
                    [NoRet EXCEPT !.pos = root_rfind_if(str, Predicates[n], p)])

FindStr ==
    /\ Ready
    /\ \E q \in ArgStrings, p \in Positions :
           Query("find_str", [NoArg EXCEPT !.strs = <<q>>, !.pos = p],
                 [NoRet EXCEPT !.pos = find_str(str, q, p)])

Contains ==
    /\ Ready
    /\ \E c \in Chars :
           Query("contains", [NoArg EXCEPT !.ch = c], [NoRet EXCEPT !.ok = contains(str, c)])

ContainsStr ==
    /\ Ready
    /\ \E q \in ArgStrings :
           Query("contains_str", [NoArg EXCEPT !.strs = <<q>>],
                 [NoRet EXCEPT !.ok = contains_str(str, q)])

\* s.with_view<V>().starts_with(q): the storage is the same under every view type
StartsWith ==
    /\ Ready
    /\ \E v \in ViewTypes, q \in ArgStrings :
           Query("starts_with", [NoArg EXCEPT !.view = v, !.strs = <<q>>],
                 [NoRet EXCEPT !.ok = starts_with(str, v, q)])

StartsWithCh ==
    /\ Ready
    /\ \E c \in Chars :
           Query("starts_with_ch", [NoArg EXCEPT !.ch = c],
                 [NoRet EXCEPT !.ok = starts_with_ch(str, c)])

EndsWith ==
    /\ Ready
    /\ \E v \in ViewTypes, q \in ArgStrings :
           Query("ends_with", [NoArg EXCEPT !.view = v, !.strs = <<q>>],
                 [NoRet EXCEPT !.ok = ends_with(str, v, q)])

EndsWithCh ==
    /\ Ready
    /\ \E c \in Chars :
           Query("ends_with_ch", [NoArg EXCEPT !.ch = c],
                 [NoRet EXCEPT !.ok = ends_with_ch(str, c)])

\* s.with_view<V>() == o.with_view<V2>()
Equals ==
    /\ Ready
    /\ \E v \in ViewTypes, v2 \in ViewTypes, o \in CompareStrings :
           LET r == equals(str, v, o, v2)
           IN  Query("equals", [NoArg EXCEPT !.view = v, !.view2 = v2, !.strs = <<o>>],
                     [NoRet EXCEPT !.rejected = (r.status # "ok"),
                                   !.ok = (r.status = "ok" /\ r.val)])

\* s.with_view<V>() == V(o.data(), o.size())
EqualsView ==
    /\ Ready
    /\ \E v \in ViewTypes, o \in CompareStrings :
           Query("equals_view", [NoArg EXCEPT !.view = v, !.strs = <<o>>],
                 [NoRet EXCEPT !.ok = equals_view(str, v, range(o))])

\* s.with_view<V>() <=> o.with_view<V2>()
Compare ==
    /\ Ready
    /\ \E v \in ViewTypes, v2 \in ViewTypes, o \in CompareStrings, sg \in BOOLEAN :
           LET r == three_way(str, v, o, v2, sg)
           IN  Query("compare",
                     [NoArg EXCEPT !.view = v, !.view2 = v2, !.strs = <<o>>, !.signed = sg],
                     [NoRet EXCEPT !.rejected = (r.status # "ok"),
                                   !.ord = (IF r.status = "ok" THEN r.val ELSE 0)])

\* s.with_view<V>() <=> V(o.data(), o.size())
CompareView ==
    /\ Ready
    /\ \E v \in ViewTypes, o \in CompareStrings, sg \in BOOLEAN :
           Query("compare_view", [NoArg EXCEPT !.view = v, !.strs = <<o>>, !.signed = sg],
                 [NoRet EXCEPT !.ord = three_way_view(str, v, range(o), sg)])

Next ==
    \/ Construct \/ ConstructDefault \/ ConstructFill \/ ConstructPack
    \/ Fill \/ Assign \/ Swap \/ WithView
    \/ AppendCh \/ AppendStr \/ Plus
    \/ InsertCh \/ InsertIter \/ InsertStr \/ InsertStrIter
    \/ Flatten \/ FreeFlatten
    \/ RootRfind \/ RootRfindStr \/ RootRfindIf
    \/ CaseOperation \/ TransformWith \/ ReplaceChs \/ Replace \/ ReplaceIter \/ ReplaceStr \/ ReplaceStrIter \/ Erase \/ EraseIter \/ Pop \/ Substr \/ Cut
    \/ RemovePrefix \/ RemoveSuffix
    \/ Transform \/ Uppercase \/ Lowercase
    \/ Find \/ Rfind \/ FindIf \/ RfindIf
    \/ FindStr \/ Contains \/ ContainsStr
    \/ StartsWith \/ StartsWithCh \/ EndsWith \/ EndsWithCh
    \/ Equals \/ EqualsView \/ Compare \/ CompareView
    \/ Chain

Spec == Init /\ [][Next]_vars

----------------------------------------------------------------------------
\* Properties of the string chain (Spec)

\* C1: after any sequence of the library's operations the storage has N + 1 slots and
\* the slot at index N, one past the N in-range elements, holds the zero terminator.
C1_Terminator == Len(str) = size(str) + 1 /\ at(str, size(str)) = nul

RECURSIVE Concat(_)
Concat(strs) == IF strs = <<>> THEN <<>> ELSE range(Head(strs)) \o Concat(Tail(strs))

RECURSIVE chain_append(_, _)
chain_append(s, strs) ==
    IF strs = <<>> THEN s ELSE chain_append(append_str(s, Head(strs)), Tail(strs))

hello == cstr(<<104, 101, 108, 108, 111, 0>>)
world == cstr(<<119, 111, 114, 108, 100, 0>>)
hello_world == cstr(<<104, 101, 108, 108, 111, 32, 119, 111, 114, 108, 100, 33, 0>>)

\* "hello" + ' ' + "world" + "!"
hello_plus_world == plus(plus(append(hello, 32, 1), world), cstr(<<33, 0>>))

\* C9: s.append(x) and s + x, for x one element, Count copies of an element or another
\* string, have size s.size() + size(x); their first s.size() elements are those of s
\* and the rest are those of x in order.  "hello" + ' ' + "world" + "!" is
\* "hello world!" with front 'h', back '!' and element 5 equal to ' '.
C9_Append ==
    /\ opn = "append_ch" =>
        /\ size(str) = size(recv) + arg.cnt
        /\ SubSeq(str, 1, size(recv)) = range(recv)
        /\ \A i \in size(recv)..(size(str) - 1) : at(str, i) = arg.ch
    /\ opn \in {"append_str", "plus"} =>
        /\ size(str) = size(recv) + size(arg.strs[1])
        /\ range(str) = range(recv) \o range(arg.strs[1])
    /\ range(hello_plus_world) = range(hello_world)
    /\ at(hello_plus_world, 0) = 104
    /\ at(hello_plus_world, size(hello_plus_world) - 1) = 33
    /\ at(hello_plus_world, 5) = 32

C9_Witness ==
    /\ opn = "append_ch"
    /\ arg.cnt = 2
    /\ arg.ch = 33
    /\ recv = cstr(<<97, 0>>)
    /\ str = cstr(<<97, 33, 33, 0>>)

\* C10: flatten(s0, s1, ..., sk) is the concatenation of its arguments in argument
\* order, its length the sum of their lengths, and so equals s0.append(s1)...append(sk);
\* for the member form and the free function, also with arguments of length 0.
C10_Flatten ==
    opn \in {"flatten", "free_flatten"} =>
        /\ size(str) = size(recv) + SumSizes(arg.strs)
        /\ range(str) = range(recv) \o Concat(arg.strs)
        /\ range(str) = range(chain_append(recv, arg.strs))

C10_Witness ==
    /\ opn = "free_flatten"
    /\ recv = cstr(<<97, 0>>)
    /\ arg.strs = <<cstr(<<0>>), cstr(<<65, 33, 0>>)>>
    /\ str = cstr(<<97, 65, 33, 0>>)

\* the indices in lo..hi of the elements of s equal to ch
Hits(s, ch, lo, hi) == {i \in lo..hi : i < size(s) /\ at(s, i) = ch}

\* the indices in lo..hi of the elements of s that satisfy p
HitsIf(s, p, lo, hi) == {i \in lo..hi : i < size(s) /\ p[at(s, i)]}

\* the smallest (largest) index of a set of indices of s, npos when there is none
First(s, I) == IF I = {} THEN size(s) ELSE SetMin(I)
Last(s, I) == IF I = {} THEN size(s) ELSE SetMax(I)

\* C11: s.find(ch) is the smallest index i with s[i] == ch and s.rfind(ch) the largest,
\* both npos == s.size() when no element equals ch; the same for find_if and rfind_if
\* with a predicate in place of equality.
C11_FindRfind ==
    LET N == size(recv)
    IN  /\ (opn = "find" /\ arg.pos = 0) =>
                ret.pos = First(recv, Hits(recv, arg.ch, 0, N - 1))
        /\ (opn = "rfind" /\ arg.pos = npos(recv)) =>
                ret.pos = Last(recv, Hits(recv, arg.ch, 0, N - 1))
        /\ (opn = "find_if" /\ arg.pos = 0) =>
                ret.pos = First(recv, HitsIf(recv, Predicates[arg.pred], 0, N - 1))
        /\ (opn = "rfind_if" /\ arg.pos = npos(recv)) =>
                ret.pos = Last(recv, HitsIf(recv, Predicates[arg.pred], 0, N - 1))

\* "aA!".rfind('!') with pos omitted is 2
C11_Witness ==
    /\ opn = "rfind"
    /\ recv = cstr(<<97, 65, 33, 0>>)
    /\ arg.ch = 33
    /\ arg.pos = 3
    /\ ret.pos = 2

\* C12: for pos < size(), find(ch, pos) is the smallest index i >= pos with s[i] == ch
\* and rfind(ch, pos) the largest index i <= pos with s[i] == ch, the element at pos
\* included, each npos when there is none; rfind with pos >= size() searches from the
\* last element.  The same for find_if and rfind_if.
C12_SearchFrom ==
    LET N == size(recv)
    IN  /\ (opn = "find" /\ arg.pos < N) =>
                ret.pos = First(recv, Hits(recv, arg.ch, arg.pos, N - 1))
        /\ (opn = "rfind" /\ arg.pos < N) =>
                ret.pos = Last(recv, Hits(recv, arg.ch, 0, arg.pos))
        /\ (opn = "rfind" /\ arg.pos >= N) =>
                ret.pos = Last(recv, Hits(recv, arg.ch, 0, N - 1))
        /\ (opn = "find_if" /\ arg.pos < N) =>
                ret.pos = First(recv, HitsIf(recv, Predicates[arg.pred], arg.pos, N - 1))
        /\ (opn = "rfind_if" /\ arg.pos < N) =>
                ret.pos = Last(recv, HitsIf(recv, Predicates[arg.pred], 0, arg.pos))
        /\ (opn = "rfind_if" /\ arg.pos >= N) =>
                ret.pos = Last(recv, HitsIf(recv, Predicates[arg.pred], 0, N - 1))

\* the indices i of s in lo..(size() - 1) at which q occurs as a contiguous run of s
Occurrences(s, q, lo) ==
    {i \in lo..(size(s) - 1) :
        /\ i + size(q) <= size(s)
        /\ \A j \in 0..(size(q) - 1) : at(s, i + j) = at(q, j)}

C14_StartsEndsWith ==
    LET N == size(recv)
        p == IF arg.strs = <<>> THEN <<nul>> ELSE arg.strs[1]
        M == size(p)
    IN  /\ opn = "starts_with" =>
                ret.ok = (M <= N /\ SubSeq(recv, 1, M) = range(p))
        /\ opn = "ends_with" =>
                ret.ok = (M <= N /\ SubSeq(recv, N - M + 1, N) = range(p))

\* s and t have the same length and pairwise equal in-range elements
SameElements(s, t) ==
    /\ size(s) = size(t)
    /\ \A i \in 0..(size(s) - 1) : at(s, i) = at(t, i)

\* C15: two strings of the same element type compare equal if and only if their lengths
\* are equal and their in-range elements are pairwise equal; with different lengths the
\* comparison yields false and is not rejected; comparing against a foreign view gives
\* the answer of comparing against a string with the view's contents.
C15_Equality ==
    /\ opn = "equals" =>
            /\ ~ret.rejected
            /\ ret.ok = SameElements(recv, arg.strs[1])
    /\ opn = "equals_view" =>
            ret.ok = SameElements(recv, arg.strs[1])

\* the lexicographic order of two sequences of element values: -1, 0 or 1, a proper
\* prefix before the longer sequence
Lexicographic(a, b) ==
    LET diff == {i \in 1..Min(Len(a), Len(b)) : a[i] # b[i]}
    IN  IF diff # {} THEN (IF a[SetMin(diff)] < b[SetMin(diff)] THEN -1 ELSE 1)
        ELSE IF Len(a) < Len(b) THEN -1
        ELSE IF Len(a) > Len(b) THEN 1
        ELSE 0

\* the in-range elements of s as values of the element type
Elements(s, signed) == [i \in 1..size(s) |-> char_value(s[i], signed)]

hell == cstr(<<104, 101, 108, 108, 0>>)
helloo == cstr(<<104, 101, 108, 108, 111, 111, 0>>)

\* C16: for strings s and t of the same element type and any lengths, s <=> t is the
\* lexicographic order of their in-range element sequences, a proper prefix before the
\* longer string ("hello" > "hell", "hello" < "helloo"); the view-based path and the
\* element-wise path give the same result.
C16_Ordering ==
    /\ opn \in {"compare", "compare_view"} =>
            /\ ~ret.rejected
            /\ ret.ord = Lexicographic(Elements(recv, arg.signed),
                                       Elements(arg.strs[1], arg.signed))
    /\ \A v \in ViewTypes :
            /\ three_way(hello, v, hell, v, TRUE) = Accepted(1)
            /\ three_way(hello, v, helloo, v, TRUE) = Accepted(-1)

\* C17: for every non-empty s, s.pop() has length s.size() - 1 and equals s without its
\* last element, and s.pop().append(s.back()) == s.
C17_PopAppend ==
    (opn = "pop" /\ size(recv) > 0) =>
        /\ size(str) = size(recv) - 1
        /\ range(str) = SubSeq(recv, 1, size(recv) - 1)
        /\ equals(append(str, back(recv), 1), "string_view", recv, "string_view")
               = Accepted(TRUE)

\* "aA!".pop() is "aA"
C17_Witness ==
    /\ opn = "pop"
    /\ recv = cstr(<<97, 65, 33, 0>>)
    /\ str = cstr(<<97, 65, 0>>)

\* s.substr<Start, Len>() is the run of s from Start of the length the claim gives,
\* Start + Len taken as a number
SubstrAsClaimed ==
    LET N == size(recv)
        L == Min(arg.pos + arg.len, N) - arg.pos
    IN  /\ ~ret.rejected
        /\ size(str) = L
        /\ \A i \in 0..(L - 1) : at(str, i) = at(recv, arg.pos + i)

\* cut<k>, remove_prefix<k> and remove_suffix<k> for 0 <= k <= N
CutAsClaimed ==
    LET N == size(recv)
        k == arg.len
    IN  /\ opn = "cut" =>
                (size(str) = k /\ range(str) = SubSeq(recv, 1, k))
        /\ (opn = "remove_prefix" /\ k <= N) =>
                (size(str) = N - k /\ range(str) = SubSeq(recv, k + 1, N))
        /\ (opn = "remove_suffix" /\ k <= N) =>
                (size(str) = N - k /\ range(str) = SubSeq(recv, 1, N - k))

\* C18 as stated: for every s of length N, Start <= N and every Len, s.substr<Start, Len>()
\* has length min(Start + Len, N) - Start and its element i equals s[Start + i]; so
\* cut<k>() for 0 <= k <= N has size k and equals the first k elements of s,
\* remove_prefix<k>() drops the first k elements and remove_suffix<k>() the last k.
C18_SubstrEveryLen ==
    /\ (opn = "substr" /\ arg.pos <= size(recv)) => SubstrAsClaimed
    /\ CutAsClaimed

\* C18 amended: the same for every Len with Start + Len within the size type; a larger
\* Len wraps the sum around and the call is rejected at compile time.
C18_Substr ==
    /\ (opn = "substr" /\ arg.pos <= size(recv) /\ arg.pos + arg.len < SizeMod) =>
            SubstrAsClaimed
    /\ (opn = "substr" /\ arg.pos <= size(recv) /\ arg.pos + arg.len >= SizeMod) =>
            ret.rejected
    /\ CutAsClaimed

\* "aA!".substr<1, 3>() is "A!": the length is clamped to the end of the string
C18_Witness ==
    /\ opn = "substr"
    /\ recv = cstr(<<97, 65, 33, 0>>)
    /\ arg.pos = 1
    /\ arg.len = 3
    /\ str = cstr(<<65, 33, 0>>)

\* the elements uppercase() (lowercase()) changed are lowercase (uppercase) letters,
\* each moved by 0x20
OnlyLettersChange(src, dst, isletter(_), shift) ==
    \A i \in 1..size(src) :
        dst[i] # src[i] => isletter(src[i]) /\ dst[i] = src[i] + shift

\* C19: for every string s, s.uppercase() and s.lowercase() exist and keep the
\* length, uppercase changes only lowercase letters and lowercase only uppercase
\* letters, s.uppercase().uppercase() equals s.uppercase() and
\* s.uppercase().lowercase() equals s.lowercase().
C19_CaseIdempotence ==
    /\ opn = "uppercase" =>
        /\ ~ret.rejected
        /\ size(str) = size(recv)
        /\ OnlyLettersChange(recv, str, islower, -32)
        /\ uppercase(str) = str
        /\ lowercase(str) = lowercase(recv)
    /\ opn = "lowercase" =>
        /\ ~ret.rejected
        /\ size(str) = size(recv)
        /\ OnlyLettersChange(recv, str, issuper, 32)
        /\ lowercase(str) = str

\* the value handed to the last insert, and the position it was handed, the
\* iterator as its offset from begin
Inserted ==
    IF opn \in {"insert", "insert_iter"} THEN [i \in 1..arg.cnt |-> arg.ch]
    ELSE SubSeq(arg.strs[1], 1, size(arg.strs[1]))
InsertedAt ==
    IF opn \in {"insert", "insert_str"} THEN Min(arg.pos, size(recv))
    ELSE Min(Max(arg.iter, 0), size(recv))

\* C20: s.insert(pos, x) is s[0..p) ++ x ++ s[p..N) with p = min(pos, N) and has
\* length N + size(x), for a character repeated Count times and for a string; the
\* iterator forms give the same with the iterator clamped into [begin, end].
C20_Insert ==
    opn \in {"insert", "insert_iter", "insert_str", "insert_str_iter"} =>
        /\ size(str) = size(recv) + Len(Inserted)
        /\ SubSeq(str, 1, size(str)) =
               SubSeq(recv, 1, InsertedAt) \o Inserted
                   \o SubSeq(recv, InsertedAt + 1, size(recv))

\* "aA".insert(4, '!') is "aA!": a position past the end inserts at the end
C20_Witness ==
    /\ opn = "insert" /\ recv = cstr(<<97, 65, 0>>)
    /\ arg.pos = 4 /\ arg.ch = 33 /\ arg.cnt = 1
    /\ str = cstr(<<97, 65, 33, 0>>)

\* the elements of s without the one at index pos
Without(s, pos) == [i \in 1..(size(s) - 1) |-> IF i <= pos THEN s[i] ELSE s[i + 1]]

\* "hello world!".uppercase().pop().erase(4).erase(8).append('?')
hell_word == append(erase(erase(pop(uppercase(hello_world)).val, 4).val, 8).val, 63, 1)

\* C21: for a non-empty s of length N, s.erase(pos) is s without the element at pos
\* when pos < N and s.pop() when pos >= N; s.erase(iterator) has the elements of
\* s.erase(p), p the iterator's position clamped into the string, an iterator at or
\* past the end removing the last element; the documented chain gives "HELL WORD?".
C21_Erase ==
    /\ opn = "erase" =>
        /\ arg.pos < size(recv) => range(str) = Without(recv, arg.pos)
        /\ arg.pos >= size(recv) => range(str) = range(pop(recv).val)
    /\ opn = "erase_iter" =>
        /\ range(str) = range(erase(recv, Min(Max(arg.iter, 0), size(recv))).val)
        /\ arg.iter >= size(recv) => range(str) = Without(recv, size(recv) - 1)
    /\ range(hell_word) = <<72, 69, 76, 76, 32, 87, 79, 82, 68, 63>>

\* "aA!".erase(cend()) has the elements of "aA"
C21_Witness ==
    /\ opn = "erase_iter" /\ recv = cstr(<<97, 65, 33, 0>>) /\ arg.iter = 3
    /\ range(str) = <<97, 65>>

\* s with ch at the indices in [lo, hi) and its own elements elsewhere
Patched(s, lo, hi, ch) == [i \in 1..size(s) |-> IF i - 1 >= lo /\ i - 1 < hi THEN ch ELSE s[i]]

\* an iterator, written as its offset from begin, clamped into [begin, end]
Clamped(s, iter) == Min(Max(iter, 0), size(s))

\* C22: s.replace(pos, ch, count) has the length of s, ch at the indices in
\* [min(pos, N), min(pos + count, N)), pos + count taken as a number however large,
\* and the elements of s elsewhere; replace(first, last, ch) does the same for the
\* clamped range and changes nothing when last precedes first.
C22_ReplaceCh ==
    /\ opn = "replace" =>
        /\ size(str) = size(recv)
        /\ range(str) = Patched(recv, Min(arg.pos, size(recv)),
                                Min(arg.pos + arg.cnt, size(recv)), arg.ch)
    /\ opn = "replace_iter" =>
        /\ size(str) = size(recv)
        /\ range(str) = Patched(recv, Clamped(recv, arg.iter), Clamped(recv, arg.last), arg.ch)
        /\ arg.last < arg.iter => range(str) = range(recv)

\* C23: for a non-empty replacement q, s.replace(pos, q, count) has the length of s,
\* q[i mod q.size()] at the index pos + i for every pos + i in
\* [pos, min(pos + q.size() * count, N)), and the elements of s elsewhere.
C23_ReplaceStr ==
    (opn = "replace_str" /\ size(arg.strs[1]) > 0) =>
        LET q == arg.strs[1]
            hi == Min(arg.pos + size(q) * arg.cnt, size(recv))
        IN  /\ size(str) = size(recv)
            /\ \A j \in 0..(size(recv) - 1) :
                   at(str, j) = IF j >= arg.pos /\ j < hi
                                THEN at(q, (j - arg.pos) % size(q))
                                ELSE at(recv, j)

\* the operation the last transform or replace<Chs...> applied
AppliedOp == IF opn = "transform" THEN toupper ELSE charutils_replace(arg.chs)

\* C24: s.replace<Chs...>(pos, len) and s.transform(op, pos, len) have the length of
\* s, the operation applied to the element of s at every index in
\* [min(pos, N), min(pos + len, N)), and the element of s at every other index.
C24_TransformFrame ==
    opn \in {"transform", "replace_chs"} =>
        /\ size(str) = size(recv)
        /\ \A j \in 0..(size(recv) - 1) :
               at(str, j) = IF j >= Min(arg.pos, size(recv)) /\ j < Min(arg.pos + arg.len, size(recv))
                            THEN AppliedOp[at(recv, j)]
                            ELSE at(recv, j)

\* the operations that look like mutations
MutatingLooking ==
    {"append_ch", "append_str", "plus", "insert", "insert_iter", "insert_str",
     "insert_str_iter", "flatten", "free_flatten", "erase", "erase_iter", "pop",
     "replace", "replace_iter", "replace_str", "replace_str_iter", "replace_chs",
     "transform", "uppercase", "lowercase", "substr", "cut", "remove_prefix",
     "remove_suffix"}

Replaced(Chs) == {Chs[i] : i \in 1..(Len(Chs) - 1)}
Target(Chs) == Chs[Len(Chs)]

\* C26: for a pack c1..cn, z and every ch, replace<c1..cn, z>(ch) is z when ch is one
\* of c1..cn and ch otherwise, remain<c1..cn, z>(ch) is ch when ch is one of c1..cn
\* and z otherwise, just<z>(ch) is z, and replace applied twice equals replace
\* applied once; a transform with one of them applies it to every element.
C26_PackOperations ==
    opn = "transform_with" =>
        LET Chs == arg.chs
            ops == PackOperations(Chs)
        IN  /\ \A ch \in ValueType :
                   /\ ops.replace[ch] = IF ch \in Replaced(Chs) THEN Target(Chs) ELSE ch
                   /\ ops.remain[ch] = IF ch \in Replaced(Chs) THEN ch ELSE Target(Chs)
                   /\ ops.just[ch] = Target(Chs)
                   /\ ops.replace[ops.replace[ch]] = ops.replace[ch]
            /\ \A j \in 1..size(recv) : str[j] = ops[arg.pred][recv[j]]

\* "aA!".transform(replace<'a', 'A', '!'>) is "!!!"
C26_Witness ==
    /\ opn = "transform_with" /\ arg.pred = "replace" /\ arg.chs = <<97, 65, 33>>
    /\ recv = cstr(<<97, 65, 33, 0>>) /\ str = cstr(<<33, 33, 33, 0>>)

\* a search result r over the occurrences I in s: an occurrence, or npos, and npos
\* when there is no occurrence
FoundOrNpos(s, I, r) == (r = npos(s) \/ r \in I) /\ (I = {} => r = npos(s))

\* C27: in the header conststr.hpp, rfind(ch, pos), rfind(str, pos) and
\* rfind_if(p, pos) return the position of a found element (of the first element of
\* a found substring), and npos, which is size(), when nothing is found.
C27_RootRfind ==
    /\ opn = "root_rfind" =>
           FoundOrNpos(recv, Hits(recv, arg.ch, 0, size(recv) - 1), ret.pos)
    /\ opn = "root_rfind_str" =>
           FoundOrNpos(recv, Occurrences(recv, arg.strs[1], 0), ret.pos)
    /\ opn = "root_rfind_if" =>
           FoundOrNpos(recv, HitsIf(recv, Predicates[arg.pred], 0, size(recv) - 1), ret.pos)

\* the index after the first occurrence of the prefix marker, and the index of the
\* last occurrence of the suffix marker
after_first_prefix(Nm) ==
    SetMin({i \in 0..size(Nm) : matches_at(Nm, prefix, i)}) + size(prefix)
last_suffix(Nm) == SetMax({i \in 0..size(Nm) : matches_at(Nm, suffix, i)})

\* the characters of Nm strictly between the two, as a cstr
qualified_path(Nm) == cstr(Lit(SubSeq(Nm, after_first_prefix(Nm) + 1, last_suffix(Nm))))

\* C28: for a signature that contains the prefix marker and the suffix marker, the
\* last occurrence of the suffix marker starting at or after the end of the first
\* occurrence of the prefix marker as in every pretty-printed signature, the
\* qualified path is the characters strictly between the two and the extracted name
\* is the basename of that path; a text with the suffix marker only before that
\* end has nothing between the two and name extraction is rejected.
C28_NameBetweenOrderedMarkers ==
    (pcn = "name_of_ptr" /\ occurs(Name, prefix) /\ occurs(Name, suffix)) =>
        IF after_first_prefix(Name) <= last_suffix(Name)
        THEN res = Accepted(trailing_identifier(qualified_path(Name)))
        ELSE res = Rejected

\* "{&n}]" gives the name "n"
C28_Witness ==
    /\ pcn = "name_of_ptr" /\ Name = cstr(<<123, 38, 110, 125, 93, 0>>)
    /\ res = Accepted(cstr(<<110, 0>>))

\* C29: for every element type T, wider than char included, and every value ch of
\* T, toupper(ch), tolower(ch) and invert(ch) are ch itself, with its full value,
\* when ch is not a letter they convert, and the letter moved by 0x20 otherwise;
\* invert(invert(ch)) is ch.
C29_CaseOperations ==
    opn = "case_operation" =>
        /\ arg.pred = "toupper" =>
               ret.val = IF islower(arg.ch) THEN arg.ch - 32 ELSE arg.ch
        /\ arg.pred = "tolower" =>
               ret.val = IF issuper(arg.ch) THEN arg.ch + 32 ELSE arg.ch
        /\ arg.pred = "invert" =>
               /\ ret.val = IF islower(arg.ch) THEN arg.ch - 32
                            ELSE IF issuper(arg.ch) THEN arg.ch + 32
                            ELSE arg.ch
               /\ ret.ord = arg.ch

----------------------------------------------------------------------------
\* reflect.hpp: termination of the field-count deduction

\* number_of_members_impl is consteval: the compiler evaluates every instantiation the
\* recursion asks for, so a deduction that can take a step does take it
SpecReflectFair ==
    InitReflect /\ [][NextReflect]_vars /\ WF_vars(ProbeAny \/ ProbeNullptr \/ ProbeReturn)

\* the deduction returns
DeductionTerminates == <>Counted

\* a step of the deduction either accepts a trial, and then the probe list is one longer,
\* or rejects both trials, and then the deduction is over with the probe list as it was;
\* the probe list never shrinks afterwards, so no length is tried twice
DeductionGrowsByOne ==
    [][/\ Len(Args') >= Len(Args)
       /\ pc = "probe" =>
            \/ pc' = "probe" /\ Len(Args') = Len(Args) + 1
            \/ pc' = "counted" /\ Args' = Args
       /\ pc # "probe" => Args' = Args /\ pc' # "probe"]_vars

\* there are never more accepted trials than fields
AcceptedTrialsBounded == Len(Args) <= Len(fields)

\* when the deduction returns, every one of the k fields has had its accepted trial
AllTrialsAccepted == [](Counted => Len(Args) = Len(fields))

\* C30: the field-count deduction of every default-constructible aggregate terminates,
\* after k accepted trials and one rejected trial for a type with k fields, each accepted
\* trial making the probe list one longer and no length being tried twice.
C30_DeductionTrials ==
    /\ DeductionTerminates
    /\ DeductionGrowsByOne
    /\ AllTrialsAccepted

====
